---- MODULE Spec2Model ----
(***************************************************************************)
(* vortludo: a Wordle-style game server.  The model covers the in-memory   *)
(* session cache and rate-limiter cache (maps guarded by RWMutexes, with   *)
(* background sweepers) and the game state machine (CheckGuess,            *)
(* UpdateGameState and the HTTP handlers that drive them).                 *)
(*                                                                         *)
(* Strings are sequences of one-character strings, so the empty string is  *)
(* <<>>, len() is Len and indexing is s[i].                                *)
(* Time is counted in hours (the TTL defaults are whole hours).            *)
(***************************************************************************)
EXTENDS Integers, Sequences, FiniteSets, TLC

\* ------------------------------------------------------------ constants

MaxGuesses == 6
WordLength == 5

GuessStatusCorrect == "correct"
GuessStatusPresent == "present"
GuessStatusAbsent == "absent"

ErrorCodeGameOver == "game_over"
ErrorCodeInvalidLength == "invalid_length"
ErrorCodeNoMoreGuesses == "no_more_guesses"
ErrorCodeWordNotAccepted == "word_not_accepted"
ErrorCodeDuplicateGuess == "duplicate_guess"

\* SESSION_TTL and RATE_LIMITER_TTL defaults, in hours
SessionTTL == 3
RateLimiterTTL == 1

\* RATE_LIMIT_RPS and RATE_LIMIT_BURST defaults
RateLimitRPS == 5
RateLimitBurst == 10

\* the sizes of the limiter map at which the sweep purges the oldest half
HighWaterMark == 10000
HardCap == 50000

\* ------------------------------------------------------------ bounds

\* the clock runs from 0 to MaxTime hours
MaxTime == 4
\* heap cells for GameState objects and for limiter entries
MaxObjs == 4
\* direct UpdateGameState calls made on one game
MaxCalls == 7
\* groups of clients that arrive at the limiter cache
MaxArrivals == 4
\* the limiters' clock counts ticks of 1/TicksPerSecond second up to MaxClock
TicksPerSecond == 10
MaxClock == 3
\* admission checks made for one client key
MaxChecks == 12
\* the letters that the scored guesses and targets are made of
MaxLetters == 2
\* rune buffers that exist at one time
MaxBufs == 2
\* entries of words.json and lines of accepted_words.txt
MaxEntries == 2
MaxLines == 2

\* ------------------------------------------------------------ the catalog

APPLE == <<"A", "P", "P", "L", "E">>
TABLE == <<"T", "A", "B", "L", "E">>
PLEAP == <<"P", "L", "E", "A", "P">>
LABEL == <<"L", "A", "B", "E", "L">>
BLEAT == <<"B", "L", "E", "A", "T">>
PETAL == <<"P", "E", "T", "A", "L">>
PLATE == <<"P", "L", "A", "T", "E">>
ABLE == <<"A", "B", "L", "E">>
EEEEE == <<"E", "E", "E", "E", "E">>
EE == <<"E", "E">>
EmptyString == <<>>

\* app.WordList: the target pool, in file order (hints play no part here)
WordList == <<APPLE, TABLE>>

\* app.WordSet: the words of WordList
WordSet == {WordList[i] : i \in 1..Len(WordList)}

\* app.AcceptedWordSet: the lines of accepted_words.txt, trimmed and
\* upper-cased; the file is not filtered by length
AcceptedWordSet == {APPLE, TABLE, PLEAP, LABEL, BLEAT, PETAL, PLATE, ABLE}

\* raw form values of the "guess" field that the handlers are given
RawGuesses ==
    AcceptedWordSet \cup
    { EEEEE, EE,
      <<" ", "a", "p", "p", "l", "e", " ">> }

\* ------------------------------------------------------------ strings

UpperOf ==
    [c \in {"a", "b", "e", "l", "p", "t"} |->
        CASE c = "a" -> "A" [] c = "b" -> "B" [] c = "e" -> "E"
          [] c = "l" -> "L" [] c = "p" -> "P" [] c = "t" -> "T"]

\* strings.ToUpper
ToUpper(s) ==
    [i \in 1..Len(s) |-> IF s[i] \in DOMAIN UpperOf THEN UpperOf[s[i]] ELSE s[i]]

RECURSIVE TrimLeft(_)
TrimLeft(s) ==
    IF s # <<>> /\ Head(s) = " " THEN TrimLeft(Tail(s)) ELSE s

RECURSIVE TrimRight(_)
TrimRight(s) ==
    IF s # <<>> /\ s[Len(s)] = " " THEN TrimRight(SubSeq(s, 1, Len(s) - 1)) ELSE s

\* strings.TrimSpace
TrimSpace(s) == TrimRight(TrimLeft(s))

NormalizeGuess(input) == ToUpper(TrimSpace(input))

\* slices.Contains
Contains(seq, x) == \E i \in 1..Len(seq) : seq[i] = x

IsValidWord(word) == word \in WordSet

IsAcceptedWord(word) == word \in AcceptedWordSet

\* ------------------------------------------------------------ scoring

EmptyResult == [Letter |-> "", Status |-> ""]

\* lo.Times(WordLength, GuessResult{})
EmptyRow == [i \in 1..WordLength |-> EmptyResult]

\* lo.Times(MaxGuesses, ...)
EmptyGuesses == [r \in 1..MaxGuesses |-> EmptyRow]

\* a variant of FirstPass that leaves the copy of the target as it is
RECURSIVE FirstPassNotConsuming(_, _, _, _, _)
FirstPassNotConsuming(guess, target, i, result, targetCopy) ==
    IF i > WordLength THEN [result |-> result, targetCopy |-> targetCopy]
    ELSE IF guess[i] = target[i]
         THEN FirstPassNotConsuming(guess, target, i + 1,
                        [result EXCEPT ![i] = [Letter |-> guess[i], Status |-> GuessStatusCorrect]],
                        targetCopy)
         ELSE FirstPassNotConsuming(guess, target, i + 1, result, targetCopy)

\* first pass of CheckGuess: exact matches are marked and blanked out of
\* the copy of the target
RECURSIVE FirstPass(_, _, _, _, _)
FirstPass(guess, target, i, result, targetCopy) ==
    IF i > WordLength THEN [result |-> result, targetCopy |-> targetCopy]
    ELSE IF guess[i] = target[i]
         THEN FirstPass(guess, target, i + 1,
                        [result EXCEPT ![i] = [Letter |-> guess[i], Status |-> GuessStatusCorrect]],
                        [targetCopy EXCEPT ![i] = " "])
         ELSE FirstPass(guess, target, i + 1, result, targetCopy)

\* the inner loop of the second pass: the first j with targetCopy[j] = c,
\* or 0 when there is none
FirstIndexOf(targetCopy, c) ==
    IF \E j \in 1..WordLength : targetCopy[j] = c
    THEN CHOOSE j \in 1..WordLength :
            /\ targetCopy[j] = c
            /\ \A k \in 1..(j - 1) : targetCopy[k] # c
    ELSE 0

\* a variant of SecondPass that walks the guess from its last position
RECURSIVE SecondPassRightToLeft(_, _, _, _)
SecondPassRightToLeft(guess, i, result, targetCopy) ==
    IF i > WordLength THEN result
    ELSE LET k == WordLength + 1 - i
         IN  IF result[k].Status = ""
             THEN LET j == FirstIndexOf(targetCopy, guess[k])
                  IN  IF j # 0
                      THEN SecondPassRightToLeft(guess, i + 1,
                                  [result EXCEPT ![k] = [Letter |-> guess[k], Status |-> GuessStatusPresent]],
                                  [targetCopy EXCEPT ![j] = " "])
                      ELSE SecondPassRightToLeft(guess, i + 1,
                                  [result EXCEPT ![k] = [Letter |-> guess[k], Status |-> GuessStatusAbsent]],
                                  targetCopy)
             ELSE SecondPassRightToLeft(guess, i + 1, result, targetCopy)

\* second pass of CheckGuess: every position not yet marked is present
\* (consuming the first remaining occurrence) or absent
RECURSIVE SecondPass(_, _, _, _)
SecondPass(guess, i, result, targetCopy) ==
    IF i > WordLength THEN result
    ELSE IF result[i].Status = ""
         THEN LET j == FirstIndexOf(targetCopy, guess[i])
              IN  IF j # 0
                  THEN SecondPass(guess, i + 1,
                                  [result EXCEPT ![i] = [Letter |-> guess[i], Status |-> GuessStatusPresent]],
                                  [targetCopy EXCEPT ![j] = " "])
                  ELSE SecondPass(guess, i + 1,
                                  [result EXCEPT ![i] = [Letter |-> guess[i], Status |-> GuessStatusAbsent]],
                                  targetCopy)
         ELSE SecondPass(guess, i + 1, result, targetCopy)

\* a variant of CheckGuess without the pass for the exact matches
CheckGuessWithoutFirstPass(guess, target) ==
    SecondPass(guess, 1, EmptyRow, target)

\* CheckGuess(guess, target): both of length WordLength
CheckGuess(guess, target) ==
    LET p1 == FirstPass(guess, target, 1, EmptyRow, target)
    IN  SecondPass(guess, 1, p1.result, p1.targetCopy)

\* ------------------------------------------------------------ game state

\* a variant of FreshGame that fills TargetWord at creation
FreshGameWithTarget(sessionWord, t) ==
    [ Guesses        |-> EmptyGuesses,
      CurrentRow     |-> 0,
      GameOver       |-> FALSE,
      Won            |-> FALSE,
      TargetWord     |-> sessionWord,
      SessionWord    |-> sessionWord,
      GuessHistory   |-> <<>>,
      LastAccessTime |-> t ]

\* the GameState literal of CreateNewGame, CreateNewGameWithCompletedWords
\* and RetryWordHandler
FreshGame(sessionWord, t) ==
    [ Guesses        |-> EmptyGuesses,
      CurrentRow     |-> 0,
      GameOver       |-> FALSE,
      Won            |-> FALSE,
      TargetWord     |-> EmptyString,
      SessionWord    |-> sessionWord,
      GuessHistory   |-> <<>>,
      LastAccessTime |-> t ]

\* the guard of UpdateGameState: no row is left
UpdateGuard(game) == game.CurrentRow >= MaxGuesses

\* a variant of IsWinningGuess that does not look at the flag
IsWinningGuessIgnoringFlag(guess, targetWord, isInvalid) == guess = targetWord

\* the winning test of UpdateGameState
IsWinningGuess(guess, targetWord, isInvalid) == ~isInvalid /\ guess = targetWord

\* a variant of WriteRow that puts the guess in front of the history
WriteRowPrepending(game, guess, result, t) ==
    [game EXCEPT !.Guesses[game.CurrentRow + 1] = result,
                 !.GuessHistory = <<guess>> \o game.GuessHistory,
                 !.LastAccessTime = t]

\* UpdateGameState: game.Guesses[game.CurrentRow] = result;
\* game.GuessHistory = append(game.GuessHistory, guess); LastAccessTime = now
WriteRow(game, guess, result, t) ==
    [game EXCEPT !.Guesses[game.CurrentRow + 1] = result,
                 !.GuessHistory = Append(game.GuessHistory, guess),
                 !.LastAccessTime = t]

\* a variant of AfterWin that also advances the row
AfterWinAdvancingRow(game) ==
    [game EXCEPT !.Won = TRUE, !.GameOver = TRUE, !.CurrentRow = game.CurrentRow + 1]

\* a variant of AfterWin that does not end the game
AfterWinNotOver(game) == [game EXCEPT !.Won = TRUE]

\* UpdateGameState, the winning branch: Won and GameOver are set
AfterWin(game) == [game EXCEPT !.Won = TRUE, !.GameOver = TRUE]

\* a variant of AfterMiss that ends the game one row late
AfterMissOffByOne(game) ==
    [game EXCEPT !.CurrentRow = game.CurrentRow + 1,
                 !.GameOver = IF game.CurrentRow + 1 > MaxGuesses THEN TRUE ELSE game.GameOver]

\* UpdateGameState, the other branch: CurrentRow++, and the game is over
\* when no row is left
AfterMiss(game) ==
    [game EXCEPT !.CurrentRow = game.CurrentRow + 1,
                 !.GameOver = IF game.CurrentRow + 1 >= MaxGuesses THEN TRUE ELSE game.GameOver]

\* a variant of RevealTarget that reveals the target on every call
RevealTargetAlways(game, targetWord) == [game EXCEPT !.TargetWord = targetWord]

\* UpdateGameState: if game.GameOver { game.TargetWord = targetWord }
RevealTarget(game, targetWord) ==
    IF game.GameOver THEN [game EXCEPT !.TargetWord = targetWord] ELSE game

\* UpdateGameState: the state of *game after the call at time t
UpdateGameState(game, guess, targetWord, result, isInvalid, t) ==
    IF UpdateGuard(game) THEN game
    ELSE LET g1 == WriteRow(game, guess, result, t)
             g2 == IF IsWinningGuess(guess, targetWord, isInvalid)
                   THEN AfterWin(g1)
                   ELSE AfterMiss(g1)
         IN  RevealTarget(g2, targetWord)

\* a variant of GetRandomWordEntry that falls back to the last entry
GetRandomWordEntryLastOnError(ctxDone, randErr) ==
    IF ctxDone \/ randErr THEN {WordList[Len(WordList)]}
    ELSE {WordList[i] : i \in 1..Len(WordList)}

\* GetRandomWordEntry: the entries it can return; the first entry when the
\* context is cancelled or the random source fails
GetRandomWordEntry(ctxDone, randErr) ==
    IF ctxDone \/ randErr THEN {WordList[1]}
    ELSE {WordList[i] : i \in 1..Len(WordList)}

\* a variant of AvailableWords that filters nothing
AvailableWordsUnfiltered(completedWords) == WordList

\* lo.Filter(app.WordList, not completed), in catalog order
AvailableWords(completedWords) ==
    SelectSeq(WordList, LAMBDA w : w \notin completedWords)

\* GetRandomWordEntryExcluding: the (word, needsReset) pairs it can return
GetRandomWordEntryExcluding(completedWords, ctxDone, randErr) ==
    IF completedWords = {}
    THEN {<<w, FALSE>> : w \in GetRandomWordEntry(ctxDone, randErr)}
    ELSE LET availableWords == AvailableWords(completedWords)
         IN  IF Len(availableWords) = 0
             THEN {<<w, TRUE>> : w \in GetRandomWordEntry(ctxDone, randErr)}
             ELSE IF ctxDone \/ randErr
                  THEN {<<availableWords[1], FALSE>>}
                  ELSE {<<availableWords[i], FALSE>> : i \in 1..Len(availableWords)}

\* ------------------------------------------------------------ state

Sessions == {"s1"}
Keys == {"10.0.0.1", "::1"}
Flows == {"f1", "f2"}
SessionSweeper == "sessionSweeper"
LimiterSweeper == "limiterSweeper"
Procs == Flows \cup {SessionSweeper, LimiterSweeper}
ObjIds == 1..MaxObjs
Nil == 0

VARIABLES
    now,            \* time.Now(), in hours
    GameSessions,   \* app.GameSessions: session id -> *GameState
    games,          \* the GameState objects the pointers refer to
    SessionMutex,   \* app.SessionMutex: [writer, readers]
    LimiterMap,     \* app.LimiterMap: client key -> *RateLimiterWithTime
    limiters,       \* the limiter entries the pointers refer to
    LimiterMutex,   \* app.LimiterMutex: [writer, readers]
    pc,             \* where each flow and each sweeper is
    loc,            \* the local variables of each flow
    unlockedWrites, \* history: the write sites that ran without the exclusive lock
    lockedCalls,    \* history: the logging, rendering and selection calls made under a lock
    sweptGames,     \* history: GameState objects deleted by the session sweep
    last,           \* history: the last handler call of the sequential game
    clock,          \* time.Now() as the rate limiters see it, in ticks
    request,        \* history: the admission checks of the requests
    bulk,           \* the limiter entries of many clients, counted by LastAccess
    scoring,        \* a call of CheckGuess: its arguments and what it returned
    RuneBufPool,    \* app.RuneBufPool: the buffers that were put back
    runeBufs,       \* the rune arrays the buffers refer to
    checkers,       \* the concurrent calls of CheckGuess, each with its locals
    selection,      \* a call of a word selection routine
    loaded,         \* the word files and what loadWords, loadAcceptedWords made of them
    got             \* history: the last call of GetGameState made alone

pureVars == <<scoring, RuneBufPool, runeBufs, checkers, selection, loaded, got>>

vars == <<now, GameSessions, games, SessionMutex, LimiterMap, limiters,
          LimiterMutex, pc, loc, unlockedWrites, lockedCalls, sweptGames, last, clock, request, bulk, pureVars>>

sessionVars == <<GameSessions, games, SessionMutex, sweptGames>>
limiterVars == <<LimiterMap, limiters, LimiterMutex>>

\* sync.RWMutex
FreeMutex == [writer |-> "", readers |-> {}]
CanLock(m) == m.writer = "" /\ m.readers = {}
CanRLock(m) == m.writer = ""
Lock(m, p) == [m EXCEPT !.writer = p]
Unlock(m) == [m EXCEPT !.writer = ""]
RLock(m, p) == [m EXCEPT !.readers = @ \cup {p}]
RUnlock(m, p) == [m EXCEPT !.readers = @ \ {p}]
HoldsLock(m, p) == m.writer = p
HoldsRLock(m, p) == p \in m.readers

\* the locals of a flow that runs no operation
IdleLoc ==
    [ op      |-> "",          \* the operation the flow runs
      sid     |-> "",          \* sessionID
      key     |-> "",          \* the limiter key
      game    |-> Nil,         \* gameState / the returned *GameState
      lim     |-> Nil,         \* limWithTime / the returned limiter
      exists  |-> FALSE,       \* exists / ok of the first lookup
      word    |-> EmptyString, \* selectedEntry.Word
      guess   |-> EmptyString, \* the normalized guess of the request
      code    |-> "",          \* the error code the request renders
      row     |-> 0,           \* the CurrentRow that game.CurrentRow++ has loaded
      wrote   |-> -1,          \* history: the index of Guesses the call wrote at
      created |-> FALSE,       \* history: this call created the object it returns
      removed |-> FALSE,       \* history: the key was removed while the call ran
      swept   |-> FALSE ]      \* history: the returned object had been swept

\* the cells that are still referenced: by a map or by a flow
LiveGames(sessions, locals) ==
    {sessions[s] : s \in DOMAIN sessions} \cup {locals[p].game : p \in Flows}

Restrict(f, S) == [x \in (DOMAIN f) \cap S |-> f[x]]

\* a fresh cell: the address of a newly allocated object
NewObj(heap) == CHOOSE i \in ObjIds \ DOMAIN heap : \A j \in ObjIds \ DOMAIN heap : i <= j

\* map insert / delete
MapPut(m, k, v) == [x \in (DOMAIN m) \cup {k} |-> IF x = k THEN v ELSE m[x]]
MapDelete(m, k) == [x \in (DOMAIN m) \ {k} |-> m[x]]

\* the handler calls made one at a time leave, as history: the operation,
\* its error code, the normalized guess, the game before and after
NoLast ==
    [op |-> "", code |-> "", guess |-> EmptyString, isInvalid |-> FALSE,
     before |-> FreshGame(EmptyString, 0), after |-> FreshGame(EmptyString, 0),
     submitted |-> <<>>, calls |-> 0, anyWin |-> FALSE]

\* history of the admission checks of one client key: how many were made
\* and how many allowed since its limiter was created, when that was, and
\* when the last check failed (-1: the last check did not fail)
NoStats == [checks |-> 0, allowedChecks |-> 0, createdAt |-> -1, failedAt |-> -1]

\* no request has been served.  Of the last request: its route and client
\* key, whether rateLimitMiddleware ran and what Allow() returned, the
\* ticks since the failed check before it (-1: none), and whether the
\* request changed the session cache or a game in it
NoRequest ==
    [route |-> "", handler |-> "", key |-> "", checked |-> FALSE, allowed |-> FALSE,
     waited |-> -1, mutated |-> FALSE, stats |-> [k \in Keys \cup {""} |-> NoStats]]

\* no limiter entries: count[t] is the number of entries of app.LimiterMap
\* whose LastAccess is t; before is count at the start of the last sweep
NoCount == [t \in 0..MaxTime |-> 0]
NoBulk == [op |-> "", at |-> 0, arrivals |-> 0, count |-> NoCount, before |-> NoCount]

\* CheckGuess has not been called
NoScoring == [op |-> "", guess |-> <<>>, target |-> <<>>, result |-> <<>>]

\* no word has been selected
NoSelection ==
    [op |-> "", completedWords |-> {}, ctxDone |-> FALSE, randErr |-> FALSE,
     word |-> <<>>, needsReset |-> FALSE]

\* the word files have not been read
NoLoaded ==
    [op |-> "", words |-> <<>>, lines |-> <<>>,
     WordList |-> <<>>, WordSet |-> {}, AcceptedWordSet |-> {}]

\* GetGameState has not been called alone
NoGot ==
    [op |-> "", sid |-> "", at |-> 0, ptr |-> 0,
     sessions |-> <<>>, heap |-> <<>>]

\* the state after main has built the App: empty caches, free locks
InitApp ==
    /\ now = 0
    /\ GameSessions = <<>>
    /\ games = <<>>
    /\ SessionMutex = FreeMutex
    /\ LimiterMap = <<>>
    /\ limiters = <<>>
    /\ LimiterMutex = FreeMutex
    /\ pc = [p \in Procs |-> "idle"]
    /\ loc = [p \in Flows |-> IdleLoc]
    /\ unlockedWrites = {}
    /\ lockedCalls = {}
    /\ sweptGames = {}
    /\ last = NoLast
    /\ clock = 0
    /\ request = NoRequest
    /\ bulk = NoBulk

Init ==
    /\ InitApp
    /\ scoring = NoScoring
    /\ RuneBufPool = {}
    /\ runeBufs = <<>>
    /\ checkers = <<>>
    /\ selection = NoSelection
    /\ loaded = NoLoaded
    /\ got = NoGot

\* time passes
Tick ==
    /\ now < MaxTime
    /\ now' = now + 1
    /\ UNCHANGED <<sessionVars, limiterVars, pc, loc, unlockedWrites, lockedCalls, last, clock, request, bulk, pureVars>>

\* ------------------------------------------------------------ session cache

\* history: a write of a cache map or of a last-access time, made by p at
\* the named site of the code, is noted when p does not hold the exclusive
\* lock m of that cache
NoteWrite(m, p, site) ==
    IF HoldsLock(m, p) THEN unlockedWrites ELSE unlockedWrites \cup {site}

\* history: a call that writes a log line, renders a response or selects a
\* random word, made by p at the named site of the code, is noted when p
\* holds lock m, shared or exclusive, at that moment
NoteCall(m, p, site) ==
    IF HoldsLock(m, p) \/ HoldsRLock(m, p) THEN lockedCalls \cup {site} ELSE lockedCalls

\* a request calls GetGameState(app, ctx, sessionID)
StartGet(p, sid) ==
    /\ pc[p] \in {"idle", "done"}
    /\ pc' = [pc EXCEPT ![p] = "get_rlock"]
    /\ loc' = [loc EXCEPT ![p] = [IdleLoc EXCEPT !.op = "get", !.sid = sid]]
    /\ games' = Restrict(games, LiveGames(GameSessions, loc'))
    /\ sweptGames' = sweptGames \cap DOMAIN games'
    /\ UNCHANGED <<now, GameSessions, SessionMutex, limiterVars, unlockedWrites, lockedCalls, last, clock, request, bulk, pureVars>>

\* GetGameState: app.SessionMutex.RLock()
GetRLock(p) ==
    /\ pc[p] = "get_rlock"
    /\ CanRLock(SessionMutex)
    /\ SessionMutex' = RLock(SessionMutex, p)
    /\ pc' = [pc EXCEPT ![p] = "get_read"]
    /\ UNCHANGED <<now, GameSessions, games, sweptGames, limiterVars, loc, unlockedWrites, lockedCalls, last, clock, request, bulk, pureVars>>

\* a variant of GetRead that keeps the shared lock
GetReadKeepingRLock(p) ==
    /\ pc[p] = "get_read"
    /\ LET sid == loc[p].sid
           exists == sid \in DOMAIN GameSessions
       IN  /\ loc' = [loc EXCEPT ![p].exists = exists,
                                 ![p].game = IF exists THEN GameSessions[sid] ELSE Nil]
           /\ pc' = [pc EXCEPT ![p] = IF exists THEN "get_lock" ELSE "create_pick"]
    /\ UNCHANGED <<now, GameSessions, games, SessionMutex, sweptGames, limiterVars, unlockedWrites, lockedCalls, last, clock, request, bulk, pureVars>>

\* GetGameState: gameState, exists := app.GameSessions[sessionID]; RUnlock()
GetRead(p) ==
    /\ pc[p] = "get_read"
    /\ LET sid == loc[p].sid
           exists == sid \in DOMAIN GameSessions
       IN  /\ loc' = [loc EXCEPT ![p].exists = exists,
                                 ![p].game = IF exists THEN GameSessions[sid] ELSE Nil]
           /\ pc' = [pc EXCEPT ![p] = IF exists THEN "get_lock" ELSE "create_pick"]
    /\ SessionMutex' = RUnlock(SessionMutex, p)
    /\ UNCHANGED <<now, GameSessions, games, sweptGames, limiterVars, unlockedWrites, lockedCalls, last, clock, request, bulk, pureVars>>

\* GetGameState, exists: app.SessionMutex.Lock()
GetLock(p) ==
    /\ pc[p] = "get_lock"
    /\ CanLock(SessionMutex)
    /\ SessionMutex' = Lock(SessionMutex, p)
    /\ pc' = [pc EXCEPT ![p] = "get_touch"]
    /\ UNCHANGED <<now, GameSessions, games, sweptGames, limiterVars, loc, unlockedWrites, lockedCalls, last, clock, request, bulk, pureVars>>

\* GetGameState, exists: gameState.LastAccessTime = time.Now(); Unlock();
\* return gameState  (the map is not read again)
GetTouch(p) ==
    /\ pc[p] = "get_touch"
    /\ games' = [games EXCEPT ![loc[p].game].LastAccessTime = now]
    /\ unlockedWrites' = NoteWrite(SessionMutex, p, "GetGameState:LastAccessTime")
    /\ SessionMutex' = Unlock(SessionMutex)
    /\ lockedCalls' = NoteCall(SessionMutex', p, "GetGameState:LogInfo")
    /\ loc' = [loc EXCEPT ![p].swept = loc[p].game \in sweptGames]
    /\ pc' = [pc EXCEPT ![p] = "done"]
    /\ UNCHANGED <<now, GameSessions, sweptGames, limiterVars, last, clock, request, bulk, pureVars>>

\* CreateNewGame: selectedEntry := GetRandomWordEntry(app, ctx)
CreatePick(p) ==
    /\ pc[p] = "create_pick"
    /\ \E ctxDone \in BOOLEAN, randErr \in BOOLEAN :
         \E w \in GetRandomWordEntry(ctxDone, randErr) :
            loc' = [loc EXCEPT ![p].word = w]
    /\ lockedCalls' = NoteCall(SessionMutex, p, "CreateNewGame:GetRandomWordEntry")
    /\ pc' = [pc EXCEPT ![p] = "create_store"]
    /\ UNCHANGED <<now, sessionVars, limiterVars, unlockedWrites, last, clock, request, bulk, pureVars>>

\* CreateNewGame: game := &GameState{...}; app.GameSessions[sessionID] = game;
\* return game  (no lock is taken)
CreateStore(p) ==
    /\ pc[p] = "create_store"
    /\ LET g == NewObj(games)
           heap == MapPut(games, g, FreshGame(loc[p].word, now))
       IN  /\ GameSessions' = MapPut(GameSessions, loc[p].sid, g)
           /\ loc' = [loc EXCEPT ![p].game = g, ![p].created = TRUE, ![p].word = EmptyString]
           /\ games' = Restrict(heap, LiveGames(GameSessions', loc'))
           /\ sweptGames' = (sweptGames \cap DOMAIN games') \ {g}
    /\ unlockedWrites' = NoteWrite(SessionMutex, p, "CreateNewGame:GameSessions")
    /\ lockedCalls' = NoteCall(SessionMutex, p, "CreateNewGame:LogInfo")
    /\ pc' = [pc EXCEPT ![p] = "done"]
    /\ UNCHANGED <<now, SessionMutex, limiterVars, last, clock, request, bulk, pureVars>>

\* another goroutine is reading or writing app.GameSessions
MapInUse(p) ==
    \/ \E q \in Flows \ {p} : pc[q] \in {"get_read", "create_store"}
    \/ pc[SessionSweeper] = "sweep"

\* CreateNewGame: the unlocked map write made while the map is in use by
\* another goroutine is a data race; the runtime may stop the process with
\* "fatal error: concurrent map writes" (or "... map read and map write")
CreateStoreFatal(p) ==
    /\ pc[p] = "create_store"
    /\ MapInUse(p)
    /\ pc' = [q \in Procs |-> "fatal"]
    /\ loc' = [q \in Flows |-> IdleLoc]
    /\ GameSessions' = <<>>
    /\ games' = <<>>
    /\ sweptGames' = {}
    /\ SessionMutex' = FreeMutex
    /\ unlockedWrites' = NoteWrite(SessionMutex, p, "CreateNewGame:GameSessions")
    /\ lockedCalls' = NoteCall(SessionMutex, p, "CreateNewGame:LogInfo")
    /\ UNCHANGED <<now, limiterVars, last, clock, request, bulk, pureVars>>

\* a variant of StaleSessions that finds no entry stale
StaleSessionsNone == {}

\* a variant of StaleSessions that also takes the entries exactly at the
\* cutoff
StaleSessionsAtCutoff ==
    {s \in DOMAIN GameSessions : games[GameSessions[s]].LastAccessTime <= now - SessionTTL}

\* the sessions the sweep deletes: LastAccessTime.Before(now - SessionTTL)
StaleSessions ==
    {s \in DOMAIN GameSessions : games[GameSessions[s]].LastAccessTime < now - SessionTTL}

\* cleanupStaleSessions: app.SessionMutex.Lock()
SweepSessionsLock ==
    /\ pc[SessionSweeper] = "idle"
    /\ CanLock(SessionMutex)
    /\ SessionMutex' = Lock(SessionMutex, SessionSweeper)
    /\ pc' = [pc EXCEPT ![SessionSweeper] = "sweep"]
    /\ UNCHANGED <<now, GameSessions, games, sweptGames, limiterVars, loc, unlockedWrites, lockedCalls, last, clock, request, bulk, pureVars>>

\* cleanupStaleSessions: the loop over the map, then the deferred Unlock()
SweepSessionsRun ==
    /\ pc[SessionSweeper] = "sweep"
    /\ LET stale == StaleSessions
       IN  /\ GameSessions' = Restrict(GameSessions, (DOMAIN GameSessions) \ stale)
           /\ loc' = [p \in Flows |->
                        IF pc[p] # "idle" /\ loc[p].sid \in stale
                        THEN [loc[p] EXCEPT !.removed = TRUE] ELSE loc[p]]
           /\ games' = Restrict(games, LiveGames(GameSessions', loc'))
           /\ sweptGames' = (sweptGames \cup {GameSessions[s] : s \in stale}) \cap DOMAIN games'
           /\ unlockedWrites' =
                IF stale = {} THEN unlockedWrites
                ELSE NoteWrite(SessionMutex, SessionSweeper, "cleanupStaleSessions:delete")
           \* if removedCount > 0 { logInfo(...) }, before the deferred Unlock()
           /\ lockedCalls' =
                IF stale = {} THEN lockedCalls
                ELSE NoteCall(SessionMutex, SessionSweeper, "cleanupStaleSessions:logInfo")
    /\ SessionMutex' = Unlock(SessionMutex)
    /\ pc' = [pc EXCEPT ![SessionSweeper] = "idle"]
    /\ UNCHANGED <<now, limiterVars, last, clock, request, bulk, pureVars>>

SessionFlow(p) ==
    \/ \E sid \in Sessions : StartGet(p, sid)
    \/ GetRLock(p)
    \/ GetRead(p)
    \/ GetLock(p)
    \/ GetTouch(p)
    \/ CreatePick(p)
    \/ CreateStore(p)
    \/ CreateStoreFatal(p)

Next ==
    \/ Tick
    \/ \E p \in Flows : SessionFlow(p)
    \/ SweepSessionsLock
    \/ SweepSessionsRun

Spec == Init /\ [][Next]_vars

\* ------------------------------------------------------------ limiter cache

LiveLimiters(lmap, locals) ==
    {lmap[k] : k \in DOMAIN lmap} \cup {locals[p].lim : p \in Flows}

\* a request calls app.getLimiter(key)
StartGetLimiter(p, key) ==
    /\ pc[p] \in {"idle", "done", "panic"}
    /\ pc' = [pc EXCEPT ![p] = "lim_rlock"]
    /\ loc' = [loc EXCEPT ![p] = [IdleLoc EXCEPT !.op = "limiter", !.key = key]]
    /\ limiters' = Restrict(limiters, LiveLimiters(LimiterMap, loc'))
    /\ UNCHANGED <<now, sessionVars, LimiterMap, LimiterMutex, unlockedWrites, lockedCalls, last, clock, request, bulk, pureVars>>

\* getLimiter: app.LimiterMutex.RLock()
LimRLock(p) ==
    /\ pc[p] = "lim_rlock"
    /\ CanRLock(LimiterMutex)
    /\ LimiterMutex' = RLock(LimiterMutex, p)
    /\ pc' = [pc EXCEPT ![p] = "lim_read"]
    /\ UNCHANGED <<now, sessionVars, LimiterMap, limiters, loc, unlockedWrites, lockedCalls, last, clock, request, bulk, pureVars>>

\* getLimiter: limWithTime, ok := app.LimiterMap[key]; RUnlock()
LimRead(p) ==
    /\ pc[p] = "lim_read"
    /\ LET ok == loc[p].key \in DOMAIN LimiterMap
       IN  /\ loc' = [loc EXCEPT ![p].exists = ok,
                                 ![p].lim = IF ok THEN LimiterMap[loc[p].key] ELSE Nil]
           /\ pc' = [pc EXCEPT ![p] = IF ok THEN "lim_lock_touch" ELSE "lim_lock_create"]
    /\ LimiterMutex' = RUnlock(LimiterMutex, p)
    /\ UNCHANGED <<now, sessionVars, LimiterMap, limiters, unlockedWrites, lockedCalls, last, clock, request, bulk, pureVars>>

\* getLimiter, ok: app.LimiterMutex.Lock()
LimLockTouch(p) ==
    /\ pc[p] = "lim_lock_touch"
    /\ CanLock(LimiterMutex)
    /\ LimiterMutex' = Lock(LimiterMutex, p)
    /\ pc' = [pc EXCEPT ![p] = "lim_touch"]
    /\ UNCHANGED <<now, sessionVars, LimiterMap, limiters, loc, unlockedWrites, lockedCalls, last, clock, request, bulk, pureVars>>

\* getLimiter, ok: if limWithTime, ok = app.LimiterMap[key]; ok { LastAccess = now };
\* Unlock(); return limWithTime.Limiter.  When the key is gone the lookup
\* leaves limWithTime nil and the return dereferences it.
LimTouch(p) ==
    /\ pc[p] = "lim_touch"
    /\ LET key == loc[p].key
           ok == key \in DOMAIN LimiterMap
       IN  IF ok
           THEN /\ loc' = [loc EXCEPT ![p].lim = LimiterMap[key]]
                /\ limiters' = Restrict([limiters EXCEPT ![LimiterMap[key]].LastAccess = now],
                                        LiveLimiters(LimiterMap, loc'))
                /\ unlockedWrites' = NoteWrite(LimiterMutex, p, "getLimiter:LastAccess")
                /\ pc' = [pc EXCEPT ![p] = "done"]
           ELSE /\ loc' = [loc EXCEPT ![p].lim = Nil]
                /\ limiters' = Restrict(limiters, LiveLimiters(LimiterMap, loc'))
                /\ unlockedWrites' = unlockedWrites
                /\ pc' = [pc EXCEPT ![p] = "panic"]
    /\ LimiterMutex' = Unlock(LimiterMutex)
    /\ UNCHANGED <<now, sessionVars, LimiterMap, lockedCalls, last, clock, request, bulk, pureVars>>

\* getLimiter, not ok: app.LimiterMutex.Lock(); defer Unlock()
LimLockCreate(p) ==
    /\ pc[p] = "lim_lock_create"
    /\ CanLock(LimiterMutex)
    /\ LimiterMutex' = Lock(LimiterMutex, p)
    /\ pc' = [pc EXCEPT ![p] = "lim_create"]
    /\ UNCHANGED <<now, sessionVars, LimiterMap, limiters, loc, unlockedWrites, lockedCalls, last, clock, request, bulk, pureVars>>

\* a variant of LimiterRecheck that never finds the key
LimiterRecheckSkipped(key) == FALSE

\* the second lookup of getLimiter, under the exclusive lock
LimiterRecheck(key) == key \in DOMAIN LimiterMap

\* getLimiter: rps := app.RateLimitRPS; if rps <= 0 { rps = 1 }
LimiterRPS == IF RateLimitRPS <= 0 THEN 1 ELSE RateLimitRPS

\* rate.Every(time.Second / time.Duration(rps)): the ticks between tokens
RefillTicks == TicksPerSecond \div LimiterRPS

\* a variant of LimiterBurst that passes the rate as the burst
LimiterBurstFromRPS == LimiterRPS

\* the burst getLimiter passes to rate.NewLimiter
LimiterBurst == RateLimitBurst

\* rate.NewLimiter(limit, burst) at tick t: a full bucket.  Tokens are
\* counted in 1/RefillTicks of a token, so that one tick adds one unit.
NewLimiter(t) == [tokens |-> LimiterBurst * RefillTicks, last |-> t]

\* the tokens of the bucket at tick t: one unit per tick since the last
\* update, up to the burst
Advance(lim, t) ==
    IF lim.tokens + (t - lim.last) > LimiterBurst * RefillTicks
    THEN LimiterBurst * RefillTicks
    ELSE lim.tokens + (t - lim.last)

\* Limiter.Allow() at tick t: [ok, lim]; a whole token is taken when
\* there is one, and the bucket is left as it was otherwise
Allow(lim, t) ==
    IF Advance(lim, t) >= RefillTicks
    THEN [ok |-> TRUE, lim |-> [tokens |-> Advance(lim, t) - RefillTicks, last |-> t]]
    ELSE [ok |-> FALSE, lim |-> lim]

\* &RateLimiterWithTime{Limiter: lim, LastAccess: time.Now()}
NewLimiterEntry(t) == [LastAccess |-> t, Limiter |-> NewLimiter(clock)]

\* getLimiter, not ok: the lookup is repeated under the lock; an entry found
\* is touched and returned, otherwise one is created and stored
LimCreate(p) ==
    /\ pc[p] = "lim_create"
    /\ LET key == loc[p].key
       IN  IF LimiterRecheck(key)
           THEN /\ loc' = [loc EXCEPT ![p].lim = LimiterMap[key]]
                /\ limiters' = [limiters EXCEPT ![LimiterMap[key]].LastAccess = now]
                /\ LimiterMap' = LimiterMap
           ELSE LET l == NewObj(limiters)
                IN  /\ loc' = [loc EXCEPT ![p].lim = l, ![p].created = TRUE]
                    /\ LimiterMap' = MapPut(LimiterMap, key, l)
                    /\ limiters' = Restrict(MapPut(limiters, l, NewLimiterEntry(now)),
                                            LiveLimiters(LimiterMap', loc'))
    /\ unlockedWrites' = NoteWrite(LimiterMutex, p, "getLimiter:LimiterMap")
    \* if key == "" || key == "::1" { logWarn(...) }, before the deferred Unlock()
    /\ lockedCalls' =
         IF ~LimiterRecheck(loc[p].key) /\ loc[p].key \in {"", "::1"}
         THEN NoteCall(LimiterMutex, p, "getLimiter:logWarn")
         ELSE lockedCalls
    /\ LimiterMutex' = Unlock(LimiterMutex)
    /\ pc' = [pc EXCEPT ![p] = "done"]
    /\ UNCHANGED <<now, sessionVars, last, clock, request, bulk, pureVars>>

\* first loop of cleanupStaleRateLimiters: LastAccess.Before(now - RateLimiterTTL)
StaleLimiters ==
    {k \in DOMAIN LimiterMap : limiters[LimiterMap[k]].LastAccess < now - RateLimiterTTL}

\* the emergency purge: the sets of keys that sorting the entries by
\* lastAccess and taking the first len/2 can give (ties in any order)
OldestHalf(lmap) ==
    {R \in SUBSET DOMAIN lmap :
        /\ Cardinality(R) = Cardinality(DOMAIN lmap) \div 2
        /\ \A r \in R, k \in (DOMAIN lmap) \ R :
              limiters[lmap[r]].LastAccess <= limiters[lmap[k]].LastAccess}

\* a variant of PurgeNeeded that purges above the first size already
PurgeAtHighWaterMark(n) == n > HighWaterMark

\* the two nested size tests of cleanupStaleRateLimiters
PurgeNeeded(n) == n > HighWaterMark /\ n > HardCap

\* what the purge removes from the map left by the first loop
PurgeChoices(lmap) ==
    IF PurgeNeeded(Cardinality(DOMAIN lmap))
    THEN OldestHalf(lmap)
    ELSE {{}}

\* cleanupStaleRateLimiters: app.LimiterMutex.Lock()
SweepLimitersLock ==
    /\ pc[LimiterSweeper] = "idle"
    /\ CanLock(LimiterMutex)
    /\ LimiterMutex' = Lock(LimiterMutex, LimiterSweeper)
    /\ pc' = [pc EXCEPT ![LimiterSweeper] = "sweep"]
    /\ UNCHANGED <<now, sessionVars, LimiterMap, limiters, loc, unlockedWrites, lockedCalls, last, clock, request, bulk, pureVars>>

\* cleanupStaleRateLimiters: both loops, then the deferred Unlock()
SweepLimitersRun ==
    /\ pc[LimiterSweeper] = "sweep"
    /\ LET afterTTL == Restrict(LimiterMap, (DOMAIN LimiterMap) \ StaleLimiters)
       IN  \E purge \in PurgeChoices(afterTTL) :
             LET gone == StaleLimiters \cup purge
             IN  /\ LimiterMap' = Restrict(afterTTL, (DOMAIN afterTTL) \ purge)
                 /\ loc' = [p \in Flows |->
                              IF pc[p] # "idle" /\ loc[p].op = "limiter" /\ loc[p].key \in gone
                              THEN [loc[p] EXCEPT !.removed = TRUE] ELSE loc[p]]
                 /\ limiters' = Restrict(limiters, LiveLimiters(LimiterMap', loc'))
                 /\ unlockedWrites' =
                      IF gone = {} THEN unlockedWrites
                      ELSE NoteWrite(LimiterMutex, LimiterSweeper, "cleanupStaleRateLimiters:delete")
                 \* the logInfo calls, before the deferred Unlock()
                 /\ lockedCalls' =
                      IF gone = {} /\ Cardinality(DOMAIN afterTTL) <= HighWaterMark
                      THEN lockedCalls
                      ELSE NoteCall(LimiterMutex, LimiterSweeper, "cleanupStaleRateLimiters:logInfo")
    /\ LimiterMutex' = Unlock(LimiterMutex)
    /\ pc' = [pc EXCEPT ![LimiterSweeper] = "idle"]
    /\ UNCHANGED <<now, sessionVars, last, clock, request, bulk, pureVars>>

LimiterFlow(p) ==
    \/ \E key \in Keys : StartGetLimiter(p, key)
    \/ LimRLock(p)
    \/ LimRead(p)
    \/ LimLockTouch(p)
    \/ LimTouch(p)
    \/ LimLockCreate(p)
    \/ LimCreate(p)

NextLimiter ==
    \/ Tick
    \/ \E p \in Flows : LimiterFlow(p)
    \/ SweepLimitersLock
    \/ SweepLimitersRun

SpecLimiter == Init /\ [][NextLimiter]_vars

\* ------------------------------------------------------------ the limiter sweep over many entries

\* numbers of clients that get a limiter at the same time
ArrivalSizes == {1, 10000, 25000}

RECURSIVE SumBelow(_, _)
\* the number of entries with LastAccess before t
SumBelow(count, t) == IF t <= 0 THEN 0 ELSE count[t - 1] + SumBelow(count, t - 1)

\* len(app.LimiterMap)
Total(count) == SumBelow(count, MaxTime + 1)

Min(a, b) == IF a <= b THEN a ELSE b
Max(a, b) == IF a >= b THEN a ELSE b

\* first loop of cleanupStaleRateLimiters: the entries with
\* LastAccess.Before(t0 - RateLimiterTTL) are deleted
AfterTTL(count, t0) ==
    [t \in DOMAIN count |-> IF t < t0 - RateLimiterTTL THEN 0 ELSE count[t]]

\* a variant of RemoveOldest that deletes the last k entries of the sorted
\* slice
RemoveNewest(count, k) ==
    [t \in DOMAIN count |->
        count[t] - Min(count[t], Max(0, k - (Total(count) - SumBelow(count, t + 1))))]

\* the entries sorted by lastAccess, the first k of them deleted
RemoveOldest(count, k) ==
    [t \in DOMAIN count |-> count[t] - Min(count[t], Max(0, k - SumBelow(count, t)))]

\* cleanupStaleRateLimiters on the entries counted by LastAccess
SweepBulk(count, t0) ==
    LET afterTTL == AfterTTL(count, t0)
        n == Total(afterTTL)
    IN  IF PurgeNeeded(n) THEN RemoveOldest(afterTTL, n \div 2) ELSE afterTTL

BulkFrame ==
    UNCHANGED <<now, sessionVars, limiterVars, pc, loc, unlockedWrites, lockedCalls, last, clock, request,
                pureVars>>

\* n clients make their first request: getLimiter stores n entries with
\* LastAccess = now
Arrive(n) ==
    /\ bulk.arrivals < MaxArrivals
    /\ bulk' = [bulk EXCEPT !.op = "arrive", !.arrivals = @ + 1, !.count[now] = @ + n]
    /\ BulkFrame

\* cleanupStaleRateLimiters runs (under the exclusive lock, from Lock to
\* the deferred Unlock)
BulkSweep ==
    /\ bulk' = [bulk EXCEPT !.op = "sweep", !.at = now, !.before = bulk.count,
                            !.count = SweepBulk(bulk.count, now)]
    /\ BulkFrame

NextPurge ==
    \/ Tick
    \/ \E n \in ArrivalSizes : Arrive(n)
    \/ BulkSweep

SpecPurge == Init /\ [][NextPurge]_vars

\* ------------------------------------------------------------ handlers, one request at a time

\* the words a caller passes to UpdateGameState directly
TransitionGuesses == {APPLE, TABLE}

\* the completedWords form values given to NewGameHandler
CompletedInputs == {{}, {APPLE, PLEAP}, {APPLE, TABLE}}

\* a variant of GetTargetWord that picks a word whatever SessionWord holds
GetTargetWordAlwaysPicks(game) ==
    {[game EXCEPT !.SessionWord = w] : w \in GetRandomWordEntry(FALSE, FALSE)}

\* GetTargetWord: the states of *game it can leave (SessionWord is
\* backfilled with a random word when it is empty); it returns SessionWord
GetTargetWord(game) ==
    IF game.SessionWord = EmptyString
    THEN {[game EXCEPT !.SessionWord = w] : w \in GetRandomWordEntry(FALSE, FALSE)}
    ELSE {game}

\* ValidateGameState
ValidateGameState(game) == IF game.GameOver THEN ErrorCodeGameOver ELSE ""

\* a variant of GuessError without the duplicate check
GuessErrorNoDuplicateCheck(game, guess) ==
    IF ValidateGameState(game) # "" THEN ValidateGameState(game)
    ELSE IF ~IsAcceptedWord(guess) THEN ErrorCodeWordNotAccepted
    ELSE IF Len(guess) # WordLength THEN ErrorCodeInvalidLength
    ELSE IF game.CurrentRow >= MaxGuesses THEN ErrorCodeNoMoreGuesses
    ELSE ""

\* a variant of GuessError that reports a duplicate under another code
GuessErrorUnknownCode(game, guess) ==
    IF ValidateGameState(game) # "" THEN ValidateGameState(game)
    ELSE IF ~IsAcceptedWord(guess) THEN ErrorCodeWordNotAccepted
    ELSE IF Contains(game.GuessHistory, guess) THEN "rejected"
    ELSE IF Len(guess) # WordLength THEN ErrorCodeInvalidLength
    ELSE IF game.CurrentRow >= MaxGuesses THEN ErrorCodeNoMoreGuesses
    ELSE ""

\* a variant of GuessError that checks length, duplicate, acceptance and
\* the terminal state, in that order
GuessErrorLengthFirst(game, guess) ==
    IF Len(guess) # WordLength THEN ErrorCodeInvalidLength
    ELSE IF Contains(game.GuessHistory, guess) THEN ErrorCodeDuplicateGuess
    ELSE IF ~IsAcceptedWord(guess) THEN ErrorCodeWordNotAccepted
    ELSE IF ValidateGameState(game) # "" THEN ValidateGameState(game)
    ELSE IF game.CurrentRow >= MaxGuesses THEN ErrorCodeNoMoreGuesses
    ELSE ""

\* the checks of GuessHandler and ProcessGuess, in the order of the code:
\* the error code, or "" when the guess goes on to be scored
GuessError(game, guess) ==
    IF ValidateGameState(game) # "" THEN ValidateGameState(game)
    ELSE IF ~IsAcceptedWord(guess) THEN ErrorCodeWordNotAccepted
    ELSE IF Contains(game.GuessHistory, guess) THEN ErrorCodeDuplicateGuess
    ELSE IF Len(guess) # WordLength THEN ErrorCodeInvalidLength
    ELSE IF game.CurrentRow >= MaxGuesses THEN ErrorCodeNoMoreGuesses
    ELSE ""

\* ProcessGuess past its checks: GetTargetWord, IsValidWord, CheckGuess,
\* UpdateGameState; the states of *game it can leave
ProcessGuess(game, guess, t) ==
    { UpdateGameState(g, guess, g.SessionWord, CheckGuess(guess, g.SessionWord),
                      ~IsValidWord(guess), t) : g \in GetTargetWord(game) }

\* a variant of GetGameStateAlone that returns the cached object as it is
GetGameStateAloneNoTouch(sessions, heap, sid, t) ==
    IF sid \in DOMAIN sessions
    THEN {[sessions |-> sessions, heap |-> heap, ptr |-> sessions[sid]]}
    ELSE {[sessions |-> MapPut(sessions, sid, NewObj(heap)),
           heap |-> MapPut(heap, NewObj(heap), FreshGame(w, t)),
           ptr |-> NewObj(heap)] : w \in GetRandomWordEntry(FALSE, FALSE)}

\* GetGameState run alone: the cached object is touched, or a new game is
\* created and stored.  The set of [sessions, heap, ptr] it can leave.
GetGameStateAlone(sessions, heap, sid, t) ==
    IF sid \in DOMAIN sessions
    THEN {[sessions |-> sessions,
           heap |-> [heap EXCEPT ![sessions[sid]].LastAccessTime = t],
           ptr |-> sessions[sid]]}
    ELSE {[sessions |-> MapPut(sessions, sid, NewObj(heap)),
           heap |-> MapPut(heap, NewObj(heap), FreshGame(w, t)),
           ptr |-> NewObj(heap)] : w \in GetRandomWordEntry(FALSE, FALSE)}

\* history: the guesses scored since the game of the session was created
Submitted(op, code, guess) ==
    IF op \in {"new", "retry"} THEN <<>>
    ELSE IF op = "guess" /\ code = "" THEN Append(last.submitted, guess)
    ELSE last.submitted

\* history: the number of direct UpdateGameState calls since the game was
\* created
Calls(op) ==
    IF op \in {"new", "retry"} THEN 0
    ELSE IF op = "transition" THEN last.calls + 1
    ELSE last.calls

\* history: one of these calls was a winning one
AnyWin(op, winning) ==
    IF op \in {"new", "retry"} THEN FALSE
    ELSE IF op = "transition" THEN last.anyWin \/ winning
    ELSE last.anyWin

SetLast(op, code, guess, isInvalid, before, after) ==
    last' = [op |-> op, code |-> code, guess |-> guess, isInvalid |-> isInvalid,
             before |-> before, after |-> after,
             submitted |-> Submitted(op, code, guess),
             calls |-> Calls(op),
             anyWin |-> AnyWin(op, IsWinningGuess(guess, before.SessionWord, isInvalid))]

AloneFrame ==
    UNCHANGED <<now, SessionMutex, sweptGames, limiterVars, pc, loc, unlockedWrites, lockedCalls,
                clock, request, bulk, pureVars>>

\* HomeHandler, GameStateHandler: GetGameState and render
HomeHandlerRun(sid) ==
    /\ \E r \in GetGameStateAlone(GameSessions, games, sid, now) :
          /\ GameSessions' = r.sessions
          /\ games' = Restrict(r.heap, {r.sessions[s] : s \in DOMAIN r.sessions})
          /\ LET before == IF sid \in DOMAIN GameSessions THEN games[GameSessions[sid]]
                           ELSE r.heap[r.ptr]
             IN  IF sid \in DOMAIN GameSessions
                 THEN SetLast("get", "", EmptyString, FALSE, before, r.heap[r.ptr])
                 ELSE SetLast("new", "", EmptyString, FALSE, before, r.heap[r.ptr])

\* HomeHandler or GameStateHandler as the whole request
HomeHandler(sid) ==
    /\ HomeHandlerRun(sid)
    /\ AloneFrame

\* GuessHandler with form value raw: GetGameState, the checks, ProcessGuess
\* and SaveGameState
GuessHandlerRun(sid, raw) ==
    /\ \E r \in GetGameStateAlone(GameSessions, games, sid, now) :
          LET game == r.heap[r.ptr]
              guess == NormalizeGuess(raw)
              code == GuessError(game, guess)
              fresh == sid \notin DOMAIN GameSessions
          IN  IF code # ""
              THEN /\ GameSessions' = r.sessions
                   /\ games' = r.heap
                   /\ IF fresh
                      THEN last' = [last EXCEPT !.op = "guess", !.code = code, !.guess = guess,
                                                !.isInvalid = FALSE, !.before = game, !.after = game,
                                                !.submitted = <<>>, !.calls = 0, !.anyWin = FALSE]
                      ELSE SetLast("guess", code, guess, FALSE, game, game)
              ELSE \E g \in ProcessGuess(game, guess, now) :
                      \* SaveGameState
                      /\ GameSessions' = MapPut(r.sessions, sid, r.ptr)
                      /\ games' = [r.heap EXCEPT ![r.ptr] = [g EXCEPT !.LastAccessTime = now]]
                      /\ IF fresh
                         THEN last' = [last EXCEPT !.op = "guess", !.code = "", !.guess = guess,
                                                   !.isInvalid = ~IsValidWord(guess),
                                                   !.before = game, !.after = games'[r.ptr],
                                                   !.submitted = <<guess>>, !.calls = 0, !.anyWin = FALSE]
                         ELSE SetLast("guess", "", guess, ~IsValidWord(guess), game, games'[r.ptr])

\* GuessHandler as the whole request
GuessHandler(sid, raw) ==
    /\ GuessHandlerRun(sid, raw)
    /\ AloneFrame

\* NewGameHandler: the old entry is deleted, then CreateNewGame or
\* CreateNewGameWithCompletedWords stores a fresh game, under the same
\* session id or (reset=1) under a new one, which is any id not in the map
NewGameHandlerRun(sid, completedInput) ==
    /\ LET completedWords == completedInput \cap WordSet
           cleared == MapDelete(GameSessions, sid)
           heap == Restrict(games, {cleared[s] : s \in DOMAIN cleared})
           g == NewObj(heap)
       IN  \E newSid \in {sid} \cup (Sessions \ DOMAIN cleared) :
           \E pick \in GetRandomWordEntryExcluding(completedWords, FALSE, FALSE) :
              /\ GameSessions' = MapPut(cleared, newSid, g)
              /\ games' = MapPut(heap, g, FreshGame(pick[1], now))
              /\ SetLast("new", IF pick[2] THEN "clear-completed-words" ELSE "",
                         EmptyString, FALSE, games'[g], games'[g])

\* NewGameHandler as the whole request
NewGameHandler(sid, completedInput) ==
    /\ NewGameHandlerRun(sid, completedInput)
    /\ AloneFrame

\* a variant of RetryGame that does not carry the word over
RetryGameWithoutWord(old, t) == FreshGame(EmptyString, t)

\* a variant of RetryGame that keeps the guesses made so far
RetryGameKeepingHistory(old, t) ==
    [FreshGame(old.SessionWord, t) EXCEPT !.GuessHistory = old.GuessHistory]

\* RetryWordHandler: sessionWord := gameState.SessionWord; newGame :=
\* &models.GameState{...}
RetryGame(old, t) == FreshGame(old.SessionWord, t)

\* the goroutine of a handler that runs alone
Handler == "handler"

\* RetryWordHandler: under SessionMutex.Lock(), a fresh game with the
\* SessionWord of the cached one is stored, then Unlock(); when the session
\* has no game, Unlock() and CreateNewGame
RetryWordHandlerRun(sid) ==
    /\ CanLock(SessionMutex)
    /\ LET held == Lock(SessionMutex, Handler)
       IN  IF sid \notin DOMAIN GameSessions
           THEN \E r \in GetGameStateAlone(GameSessions, games, sid, now) :
                   /\ GameSessions' = r.sessions
                   /\ games' = r.heap
                   /\ SetLast("new", "", EmptyString, FALSE, r.heap[r.ptr], r.heap[r.ptr])
                   /\ SessionMutex' = Unlock(held)
                   \* CreateNewGame and c.Redirect, after Unlock()
                   /\ lockedCalls' = NoteCall(Unlock(held), Handler, "RetryWordHandler:CreateNewGame")
                   /\ UNCHANGED unlockedWrites
           ELSE LET old == games[GameSessions[sid]]
                    heap == Restrict(games, {GameSessions[s] : s \in (DOMAIN GameSessions) \ {sid}})
                    g == NewObj(heap)
                IN  /\ GameSessions' = MapPut(GameSessions, sid, g)
                    /\ games' = MapPut(heap, g, RetryGame(old, now))
                    /\ unlockedWrites' = NoteWrite(held, Handler, "RetryWordHandler:GameSessions")
                    /\ SessionMutex' = Unlock(held)
                    \* c.Redirect, after Unlock()
                    /\ lockedCalls' = NoteCall(Unlock(held), Handler, "RetryWordHandler:Redirect")
                    /\ SetLast("retry", "", EmptyString, FALSE, old, games'[g])

\* RetryWordHandler as the whole request
RetryWordHandler(sid) ==
    /\ RetryWordHandlerRun(sid)
    /\ UNCHANGED <<now, sweptGames, limiterVars, pc, loc, clock, request, bulk, pureVars>>

NextGame ==
    \/ \E sid \in Sessions : HomeHandler(sid)
    \/ \E sid \in Sessions, raw \in RawGuesses : GuessHandler(sid, raw)
    \/ \E sid \in Sessions, c \in CompletedInputs : NewGameHandler(sid, c)
    \/ \E sid \in Sessions : RetryWordHandler(sid)

SpecGame == Init /\ [][NextGame]_vars

\* a caller applies UpdateGameState to the cached game of the session, with
\* the target of the session, the score of the guess and any isInvalid flag
Transition(sid, guess, isInvalid) ==
    /\ sid \in DOMAIN GameSessions
    /\ last.calls < MaxCalls
    /\ LET game == games[GameSessions[sid]]
           after == UpdateGameState(game, guess, game.SessionWord,
                                    CheckGuess(guess, game.SessionWord), isInvalid, now)
       IN  /\ games' = [games EXCEPT ![GameSessions[sid]] = after]
           /\ SetLast("transition", "", guess, isInvalid, game, after)
    /\ UNCHANGED GameSessions
    /\ AloneFrame

\* CreateNewGame for the session
CreateNewGame(sid) ==
    /\ LET heap == Restrict(games, {GameSessions[s] : s \in (DOMAIN GameSessions) \ {sid}})
           g == NewObj(heap)
       IN  \E w \in GetRandomWordEntry(FALSE, FALSE) :
              /\ GameSessions' = MapPut(GameSessions, sid, g)
              /\ games' = MapPut(heap, g, FreshGame(w, now))
              /\ SetLast("new", "", EmptyString, FALSE, games'[g], games'[g])
    /\ AloneFrame

NextTransition ==
    \/ \E sid \in Sessions : CreateNewGame(sid)
    \/ \E sid \in Sessions, guess \in TransitionGuesses, isInvalid \in BOOLEAN :
          Transition(sid, guess, isInvalid)

SpecTransition == Init /\ [][NextTransition]_vars

\* ------------------------------------------------------------ handlers and the session sweep

\* the requests are served one at a time, between the runs of the session
\* sweep, while the hours pass
NextCatalog ==
    \/ Tick
    \/ \E sid \in Sessions : pc[SessionSweeper] = "idle" /\ HomeHandler(sid)
    \/ \E sid \in Sessions, raw \in TransitionGuesses :
          pc[SessionSweeper] = "idle" /\ GuessHandler(sid, raw)
    \/ \E sid \in Sessions, c \in CompletedInputs :
          pc[SessionSweeper] = "idle" /\ NewGameHandler(sid, c)
    \/ \E sid \in Sessions : RetryWordHandler(sid)
    \/ SweepSessionsLock
    \/ SweepSessionsRun

SpecCatalog == Init /\ [][NextCatalog]_vars

\* ------------------------------------------------------------ entries without a word

\* a GameState whose SessionWord is empty is in the cache, as the one
\* TestGetTargetWord builds: &models.GameState{SessionWord: ""}
LegacyEntry(sid) ==
    /\ LET heap == Restrict(games, {GameSessions[s] : s \in (DOMAIN GameSessions) \ {sid}})
           g == NewObj(heap)
       IN  /\ GameSessions' = MapPut(GameSessions, sid, g)
           /\ games' = MapPut(heap, g, FreshGame(EmptyString, now))
           /\ SetLast("new", "", EmptyString, FALSE, games'[g], games'[g])
    /\ AloneFrame

\* GetTargetWord(app, ctx, game) called on the cached game of the session;
\* the word it returns is kept in last.guess
GetTargetWordCall(sid) ==
    /\ sid \in DOMAIN GameSessions
    /\ LET game == games[GameSessions[sid]]
       IN  \E g \in GetTargetWord(game) :
              /\ games' = [games EXCEPT ![GameSessions[sid]] = g]
              /\ last' = [last EXCEPT !.op = "target", !.code = "", !.guess = g.SessionWord,
                                        !.isInvalid = FALSE, !.before = game, !.after = g]
    /\ UNCHANGED GameSessions
    /\ AloneFrame

NextLegacy ==
    \/ NextGame
    \/ \E sid \in Sessions : LegacyEntry(sid)
    \/ \E sid \in Sessions : GetTargetWordCall(sid)

SpecLegacy == Init /\ [][NextLegacy]_vars

\* ------------------------------------------------------------ routes and admission

\* the form values and cookies of the requests
AdmitGuesses == {APPLE}
AdmitCompleted == {{}}
AdmitKeys == {"10.0.0.1"}

\* time passes for the rate limiters
ClockTick ==
    /\ clock < MaxClock
    /\ clock' = clock + 1
    /\ UNCHANGED <<now, sessionVars, limiterVars, sweptGames, pc, loc, unlockedWrites, lockedCalls,
                   last, request, bulk, pureVars>>

\* a variant of GetLimiterAlone that hands every key the limiter of the
\* first client
GetLimiterAloneShared(lmap, heap, key, t) ==
    IF key \in DOMAIN lmap
    THEN [lmap |-> lmap,
          heap |-> [heap EXCEPT ![lmap[key]].LastAccess = t],
          ptr |-> lmap[key]]
    ELSE IF DOMAIN lmap # {}
    THEN LET l == lmap[CHOOSE k \in DOMAIN lmap : TRUE]
         IN  [lmap |-> MapPut(lmap, key, l),
              heap |-> [heap EXCEPT ![l].LastAccess = t],
              ptr |-> l]
    ELSE [lmap |-> MapPut(lmap, key, NewObj(heap)),
          heap |-> MapPut(heap, NewObj(heap), NewLimiterEntry(t)),
          ptr |-> NewObj(heap)]

\* a variant of GetLimiterAlone that gives an empty or loopback key a new
\* limiter at every call
GetLimiterAloneFreshForLoopback(lmap, heap, key, t) ==
    IF key \in DOMAIN lmap /\ key \notin {"", "::1"}
    THEN [lmap |-> lmap,
          heap |-> [heap EXCEPT ![lmap[key]].LastAccess = t],
          ptr |-> lmap[key]]
    ELSE LET kept == Restrict(heap, {lmap[k] : k \in (DOMAIN lmap) \ {key}})
         IN  [lmap |-> MapPut(lmap, key, NewObj(kept)),
              heap |-> MapPut(kept, NewObj(kept), NewLimiterEntry(t)),
              ptr |-> NewObj(kept)]

\* getLimiter run alone: the entry of the key is touched, or a new one is
\* created and stored.  The [lmap, heap, ptr] it leaves.
GetLimiterAlone(lmap, heap, key, t) ==
    IF key \in DOMAIN lmap
    THEN [lmap |-> lmap,
          heap |-> [heap EXCEPT ![lmap[key]].LastAccess = t],
          ptr |-> lmap[key]]
    ELSE [lmap |-> MapPut(lmap, key, NewObj(heap)),
          heap |-> MapPut(heap, NewObj(heap), NewLimiterEntry(t)),
          ptr |-> NewObj(heap)]

\* history: the admission checks of the key, after one that returned ok
StatsAfter(key, ok) ==
    LET s == IF key \in DOMAIN LimiterMap THEN request.stats[key] ELSE NoStats
    IN  [checks |-> s.checks + 1,
         allowedChecks |-> s.allowedChecks + (IF ok THEN 1 ELSE 0),
         createdAt |-> IF key \in DOMAIN LimiterMap THEN s.createdAt ELSE clock,
         failedAt |-> IF ok THEN -1 ELSE clock]

\* history: the ticks since the failed check of the key that came last
Waited(key) ==
    IF key \in DOMAIN LimiterMap /\ request.stats[key].failedAt >= 0
    THEN clock - request.stats[key].failedAt
    ELSE -1

\* history: the request changes the session cache or a game in it
Mutates == <<GameSessions', games'>> # <<GameSessions, games>>

\* rateLimitMiddleware for the request of a client: app.getLimiter(key)
\* .Allow() returns ok
RateLimitMiddleware(route, handler, key, ok) ==
    /\ request.stats[key].checks < MaxChecks
    /\ LET r == GetLimiterAlone(LimiterMap, limiters, key, now)
           a == Allow(r.heap[r.ptr].Limiter, clock)
       IN  /\ a.ok = ok
           /\ LimiterMap' = r.lmap
           /\ limiters' = [r.heap EXCEPT ![r.ptr].Limiter = a.lim]
           /\ request' = [route |-> route, handler |-> handler, key |-> key,
                          checked |-> TRUE, allowed |-> ok, waited |-> Waited(key),
                          mutated |-> Mutates,
                          stats |-> [request.stats EXCEPT ![key] = StatsAfter(key, ok)]]

\* c.AbortWithStatusJSON(http.StatusTooManyRequests, ...): the handler of
\* the route does not run
TooManyRequests(route, handler, key) ==
    /\ UNCHANGED <<GameSessions, games, last, SessionMutex, unlockedWrites, lockedCalls>>
    /\ RateLimitMiddleware(route, handler, key, FALSE)

\* a route that is registered without the middleware
NoMiddleware(route, handler, key) ==
    /\ request' = [request EXCEPT !.route = route, !.handler = handler, !.key = key,
                                  !.checked = FALSE, !.allowed = FALSE, !.waited = -1,
                                  !.mutated = Mutates]
    /\ UNCHANGED <<LimiterMap, limiters>>

AdmitFrame ==
    UNCHANGED <<now, LimiterMutex, sweptGames, pc, loc, clock, bulk, pureVars>>

\* router.GET("/", app.homeHandler), router.GET("/game-state", ...)
GetHome(key, sid) ==
    /\ HomeHandlerRun(sid)
    /\ NoMiddleware("GET /", "homeHandler", key)
    /\ UNCHANGED <<SessionMutex, unlockedWrites, lockedCalls>>
    /\ AdmitFrame

\* router.GET("/new-game", app.newGameHandler): completedWords is read
\* from the form of a POST only
GetNewGame(key, sid) ==
    /\ NewGameHandlerRun(sid, {})
    /\ NoMiddleware("GET /new-game", "newGameHandler", key)
    /\ UNCHANGED <<SessionMutex, unlockedWrites, lockedCalls>>
    /\ AdmitFrame

\* router.POST("/new-game", app.rateLimitMiddleware(), app.newGameHandler)
PostNewGame(key, sid, completedInput) ==
    /\ \/ /\ NewGameHandlerRun(sid, completedInput)
          /\ UNCHANGED <<SessionMutex, unlockedWrites, lockedCalls>>
          /\ RateLimitMiddleware("POST /new-game", "newGameHandler", key, TRUE)
       \/ TooManyRequests("POST /new-game", "newGameHandler", key)
    /\ AdmitFrame

\* router.POST("/guess", app.rateLimitMiddleware(), app.guessHandler)
PostGuess(key, sid, raw) ==
    /\ \/ /\ GuessHandlerRun(sid, raw)
          /\ UNCHANGED <<SessionMutex, unlockedWrites, lockedCalls>>
          /\ RateLimitMiddleware("POST /guess", "guessHandler", key, TRUE)
       \/ TooManyRequests("POST /guess", "guessHandler", key)
    /\ AdmitFrame

\* router.POST("/retry-word", app.rateLimitMiddleware(), app.retryWordHandler)
PostRetryWord(key, sid) ==
    /\ \/ /\ RetryWordHandlerRun(sid)
          /\ RateLimitMiddleware("POST /retry-word", "retryWordHandler", key, TRUE)
       \/ TooManyRequests("POST /retry-word", "retryWordHandler", key)
    /\ AdmitFrame

NextAdmit ==
    \/ ClockTick
    \/ \E key \in AdmitKeys, sid \in Sessions : GetHome(key, sid)
    \/ \E key \in AdmitKeys, sid \in Sessions : GetNewGame(key, sid)
    \/ \E key \in AdmitKeys, sid \in Sessions, c \in AdmitCompleted : PostNewGame(key, sid, c)
    \/ \E key \in AdmitKeys, sid \in Sessions, raw \in AdmitGuesses : PostGuess(key, sid, raw)
    \/ \E key \in AdmitKeys, sid \in Sessions : PostRetryWord(key, sid)

SpecAdmit == Init /\ [][NextAdmit]_vars

\* ------------------------------------------------------------ admission of flagged keys

\* the client keys getLimiter flags: key == "" || key == "::1"
FlaggedKeys == {"", "::1"}

\* rateLimitMiddleware alone for a request of the client, Allow() returning
\* ok; getLimiter logs the warning when it creates the limiter of a flagged
\* key, before its deferred Unlock()
KeyCheck(key, ok) ==
    /\ UNCHANGED <<now, sessionVars, LimiterMutex, pc, loc, unlockedWrites, last, clock,
                   bulk, pureVars>>
    /\ RateLimitMiddleware("", "", key, ok)
    /\ lockedCalls' = IF key \notin DOMAIN LimiterMap /\ key \in FlaggedKeys
                      THEN lockedCalls \cup {"getLimiter:logWarn"}
                      ELSE lockedCalls

NextFlagged ==
    \/ ClockTick
    \/ \E key \in FlaggedKeys, ok \in BOOLEAN : KeyCheck(key, ok)

SpecFlagged == Init /\ [][NextFlagged]_vars

\* ------------------------------------------------------------ clients side by side

\* beside the server, for each client key, a server that this client alone
\* talks to: its LimiterMap and limiters are got.sessions[key], got.heap[key]
AloneMap(key) == IF key \in DOMAIN got.sessions THEN got.sessions[key] ELSE <<>>
AloneHeap(key) == IF key \in DOMAIN got.heap THEN got.heap[key] ELSE <<>>

\* rateLimitMiddleware for a request of the client, Allow() returning ok;
\* the same request is made to the server the client has alone, and what
\* Allow() returned there is kept in got.op
SideBySideCheck(key, ok) ==
    /\ UNCHANGED <<now, sessionVars, LimiterMutex, pc, loc, unlockedWrites, last, clock,
                   bulk, scoring, RuneBufPool, runeBufs, checkers, selection, loaded>>
    /\ RateLimitMiddleware("", "", key, ok)
    /\ lockedCalls' = IF key \notin DOMAIN LimiterMap /\ key \in FlaggedKeys
                      THEN lockedCalls \cup {"getLimiter:logWarn"}
                      ELSE lockedCalls
    /\ LET r == GetLimiterAlone(AloneMap(key), AloneHeap(key), key, now)
           a == Allow(r.heap[r.ptr].Limiter, clock)
       IN  got' = [got EXCEPT !.op = IF a.ok THEN "allowed" ELSE "refused",
                              !.sid = key,
                              !.sessions = MapPut(got.sessions, key, r.lmap),
                              !.heap = MapPut(got.heap, key,
                                              [r.heap EXCEPT ![r.ptr].Limiter = a.lim])]

NextIsolation ==
    \/ ClockTick
    \/ \E key \in Keys, ok \in BOOLEAN : SideBySideCheck(key, ok)

SpecIsolation == Init /\ [][NextIsolation]_vars

\* ------------------------------------------------------------ scoring alone

LetterOrder == <<"A", "P", "E", "L", "B", "T">>

ScoreLetters == {LetterOrder[i] : i \in 1..MaxLetters}

\* the guesses and targets that are scored: every word over ScoreLetters
\* and the words of the catalog
ScoreWords ==
    [1..WordLength -> ScoreLetters]
       \cup {w \in AcceptedWordSet : Len(w) = WordLength} \cup {EEEEE}

InitScore ==
    /\ InitApp
    /\ \E g \in ScoreWords, t \in ScoreWords :
          scoring = [op |-> "", guess |-> g, target |-> t, result |-> <<>>]
    /\ RuneBufPool = {}
    /\ runeBufs = <<>>
    /\ checkers = <<>>
    /\ selection = NoSelection
    /\ loaded = NoLoaded
    /\ got = NoGot

\* result := CheckGuess(guess, target, app)
Score ==
    /\ scoring.op = ""
    /\ scoring' = [scoring EXCEPT !.op = "CheckGuess",
                                  !.result = CheckGuess(scoring.guess, scoring.target)]
    /\ UNCHANGED <<now, sessionVars, limiterVars, pc, loc, unlockedWrites, lockedCalls, last,
                   clock, request, bulk, RuneBufPool, runeBufs, checkers, selection, loaded, got>>

NextScore == Score

SpecScore == InitScore /\ [][NextScore]_vars

\* ------------------------------------------------------------ scoring with the pool

\* the goroutines that call CheckGuess
Checkers == {"c1", "c2"}

\* the arguments of the calls
PoolGuesses == {APPLE, PLEAP}
PoolTargets == {APPLE, TABLE}

\* the zero rune
NUL == "NUL"

BufIds == 1..MaxBufs

\* sync.Pool.New: buf := make([]rune, WordLength)
NewBuf == [i \in 1..WordLength |-> NUL]

\* a variant of Zeroed that clears the first rune only
ZeroedFirstOnly(buf) == [buf EXCEPT ![1] = NUL]

\* for i := range pooledBuf { pooledBuf[i] = 0 }
Zeroed(buf) == [i \in 1..Len(buf) |-> NUL]

\* copy(targetCopy, []rune(target)) with targetCopy = pooledBuf[:WordLength]
CopyInto(buf, target) ==
    [i \in 1..Len(buf) |-> IF i <= WordLength /\ i <= Len(target) THEN target[i] ELSE buf[i]]

IdleChecker ==
    [pc |-> "idle", guess |-> <<>>, target |-> <<>>, pooledBuf |-> 0,
     result |-> <<>>, i |-> 0, found |-> FALSE, reused |-> FALSE]

InitPool ==
    /\ InitApp
    /\ scoring = NoScoring
    /\ RuneBufPool = {}
    /\ runeBufs = <<>>
    /\ checkers = [c \in Checkers |-> IdleChecker]
    /\ selection = NoSelection
    /\ loaded = NoLoaded
    /\ got = NoGot

PoolFrame ==
    UNCHANGED <<now, sessionVars, limiterVars, pc, loc, unlockedWrites, lockedCalls, last,
                clock, request, bulk, scoring, selection, loaded, got>>

\* CheckGuess is called; app.RuneBufPool.Get() hands out a buffer that was
\* put back, which leaves the pool, or a new one made by New
PoolGet(c, guess, target) ==
    /\ checkers[c].pc = "idle"
    /\ \/ \E b \in RuneBufPool :
             /\ RuneBufPool' = RuneBufPool \ {b}
             /\ checkers' = [checkers EXCEPT ![c] =
                    [IdleChecker EXCEPT !.pc = "copy", !.guess = guess, !.target = target,
                                        !.pooledBuf = b, !.result = EmptyRow, !.reused = TRUE]]
             /\ UNCHANGED runeBufs
       \/ \E b \in BufIds \ DOMAIN runeBufs :
             /\ \A k \in BufIds \ DOMAIN runeBufs : b <= k
             /\ runeBufs' = MapPut(runeBufs, b, NewBuf)
             /\ checkers' = [checkers EXCEPT ![c] =
                    [IdleChecker EXCEPT !.pc = "copy", !.guess = guess, !.target = target,
                                        !.pooledBuf = b, !.result = EmptyRow]]
             /\ UNCHANGED RuneBufPool
    /\ PoolFrame

\* targetCopy = pooledBuf[:WordLength]; copy(targetCopy, []rune(target))
PoolCopy(c) ==
    /\ checkers[c].pc = "copy"
    /\ runeBufs' = [runeBufs EXCEPT ![checkers[c].pooledBuf] = CopyInto(@, checkers[c].target)]
    /\ checkers' = [checkers EXCEPT ![c].pc = "pass1", ![c].i = 1]
    /\ UNCHANGED RuneBufPool
    /\ PoolFrame

\* one turn of the first loop
PoolFirstPass(c) ==
    LET k == checkers[c]
    IN  /\ k.pc = "pass1"
        /\ IF k.i > WordLength
           THEN /\ checkers' = [checkers EXCEPT ![c].pc = "pass2", ![c].i = 1]
                /\ UNCHANGED runeBufs
           ELSE IF k.guess[k.i] = k.target[k.i]
                THEN /\ checkers' = [checkers EXCEPT
                            ![c].result[k.i] = [Letter |-> k.guess[k.i], Status |-> GuessStatusCorrect],
                            ![c].i = k.i + 1]
                     /\ runeBufs' = [runeBufs EXCEPT ![k.pooledBuf][k.i] = " "]
                ELSE /\ checkers' = [checkers EXCEPT ![c].i = k.i + 1]
                     /\ UNCHANGED runeBufs
        /\ UNCHANGED RuneBufPool
        /\ PoolFrame

\* one turn of the second loop, its inner loop included
PoolSecondPass(c) ==
    LET k == checkers[c]
    IN  /\ k.pc = "pass2"
        /\ IF k.i > WordLength
           THEN /\ checkers' = [checkers EXCEPT ![c].pc = "put"]
                /\ UNCHANGED runeBufs
           ELSE IF k.result[k.i].Status = ""
                THEN LET j == FirstIndexOf(runeBufs[k.pooledBuf], k.guess[k.i])
                     IN  IF j # 0
                         THEN /\ checkers' = [checkers EXCEPT
                                     ![c].result[k.i] = [Letter |-> k.guess[k.i], Status |-> GuessStatusPresent],
                                     ![c].i = k.i + 1]
                              /\ runeBufs' = [runeBufs EXCEPT ![k.pooledBuf][j] = " "]
                         ELSE /\ checkers' = [checkers EXCEPT
                                     ![c].result[k.i] = [Letter |-> k.guess[k.i], Status |-> GuessStatusAbsent],
                                     ![c].i = k.i + 1]
                              /\ UNCHANGED runeBufs
                ELSE /\ checkers' = [checkers EXCEPT ![c].i = k.i + 1]
                     /\ UNCHANGED runeBufs
        /\ UNCHANGED RuneBufPool
        /\ PoolFrame

\* the buffer is cleared and put back: app.RuneBufPool.Put(&buf)
PoolPut(c) ==
    LET k == checkers[c]
    IN  /\ k.pc = "put"
        /\ runeBufs' = [runeBufs EXCEPT ![k.pooledBuf] = Zeroed(@)]
        /\ RuneBufPool' = RuneBufPool \cup {k.pooledBuf}
        /\ checkers' = [checkers EXCEPT ![c].pc = "done", ![c].pooledBuf = 0]
        /\ PoolFrame

\* return result
PoolReturn(c) ==
    /\ checkers[c].pc = "done"
    /\ checkers' = [checkers EXCEPT ![c] = IdleChecker]
    /\ UNCHANGED <<RuneBufPool, runeBufs>>
    /\ PoolFrame

\* sync.Pool lets go of a buffer that nobody fetched
PoolDrop(b) ==
    /\ b \in RuneBufPool
    /\ RuneBufPool' = RuneBufPool \ {b}
    /\ runeBufs' = MapDelete(runeBufs, b)
    /\ UNCHANGED checkers
    /\ PoolFrame

NextPool ==
    \/ \E c \in Checkers, g \in PoolGuesses, t \in PoolTargets : PoolGet(c, g, t)
    \/ \E c \in Checkers : PoolCopy(c)
    \/ \E c \in Checkers : PoolFirstPass(c)
    \/ \E c \in Checkers : PoolSecondPass(c)
    \/ \E c \in Checkers : PoolPut(c)
    \/ \E c \in Checkers : PoolReturn(c)
    \/ \E b \in BufIds : PoolDrop(b)

SpecPool == InitPool /\ [][NextPool]_vars

\* ------------------------------------------------------------ word selection alone

\* the words the completedWords argument is made of
CompletedUniverse == {APPLE, TABLE, PLEAP, LABEL}

InitSelect ==
    /\ InitApp
    /\ scoring = NoScoring
    /\ RuneBufPool = {}
    /\ runeBufs = <<>>
    /\ checkers = <<>>
    /\ \E c \in SUBSET CompletedUniverse, d \in BOOLEAN, e \in BOOLEAN :
          selection = [NoSelection EXCEPT !.completedWords = c, !.ctxDone = d, !.randErr = e]
    /\ loaded = NoLoaded
    /\ got = NoGot

SelectFrame ==
    UNCHANGED <<now, sessionVars, limiterVars, pc, loc, unlockedWrites, lockedCalls, last,
                clock, request, bulk, scoring, RuneBufPool, runeBufs, checkers, loaded, got>>

\* entry := GetRandomWordEntry(app, ctx)
SelectEntry ==
    /\ selection.op = ""
    /\ \E w \in GetRandomWordEntry(selection.ctxDone, selection.randErr) :
          selection' = [selection EXCEPT !.op = "GetRandomWordEntry", !.word = w]
    /\ SelectFrame

\* entry, needsReset := GetRandomWordEntryExcluding(app, ctx, completedWords)
SelectExcluding ==
    /\ selection.op = ""
    /\ \E r \in GetRandomWordEntryExcluding(selection.completedWords,
                                            selection.ctxDone, selection.randErr) :
          selection' = [selection EXCEPT !.op = "GetRandomWordEntryExcluding",
                                         !.word = r[1], !.needsReset = r[2]]
    /\ SelectFrame

NextSelect ==
    \/ SelectEntry
    \/ SelectExcluding

SpecSelect == InitSelect /\ [][NextSelect]_vars

\* ------------------------------------------------------------ GetGameState alone

\* the session ids of the cookies
GetSessions == {"s1", "s2"}

\* the guesses played between the calls
GetGuesses == {APPLE, TABLE}

GetFrame ==
    UNCHANGED <<now, SessionMutex, sweptGames, limiterVars, pc, loc, unlockedWrites,
                lockedCalls, last, clock, request, bulk, scoring, RuneBufPool, runeBufs,
                checkers, selection, loaded>>

\* GetGameState(app, ctx, sessionID) with no other operation under way; the
\* cache before the call and the pointer returned are kept in got
GetCall(sid) ==
    /\ \E r \in GetGameStateAlone(GameSessions, games, sid, now) :
          /\ GameSessions' = r.sessions
          /\ games' = r.heap
          /\ got' = [op |-> IF sid \in DOMAIN GameSessions THEN "hit" ELSE "miss",
                     sid |-> sid, at |-> now, ptr |-> r.ptr,
                     sessions |-> GameSessions, heap |-> games]
    /\ GetFrame

\* a guess of the session is scored and saved: ProcessGuess, SaveGameState
PlayCall(sid, raw) ==
    /\ sid \in DOMAIN GameSessions
    /\ LET game == games[GameSessions[sid]]
           guess == NormalizeGuess(raw)
       IN  /\ GuessError(game, guess) = ""
           /\ \E g \in ProcessGuess(game, guess, now) :
                 games' = [games EXCEPT ![GameSessions[sid]] = [g EXCEPT !.LastAccessTime = now]]
    /\ got' = [NoGot EXCEPT !.op = "play"]
    /\ UNCHANGED GameSessions
    /\ GetFrame

NextGet ==
    \/ Tick
    \/ \E sid \in GetSessions : GetCall(sid)
    \/ \E sid \in GetSessions, raw \in GetGuesses : PlayCall(sid, raw)

SpecGet == Init /\ [][NextGet]_vars

\* ------------------------------------------------------------ new games alone

\* CreateNewGameWithCompletedWords(app, ctx, sessionID, completedWords) with
\* no other operation under way: the word is selected, the GameState literal
\* is built and stored under sessionID; the call and what it returned are
\* kept in got and selection
CreateNewGameWithCompletedWords(sid, completedWords, ctxDone, randErr) ==
    /\ LET heap == Restrict(games, {GameSessions[s] : s \in (DOMAIN GameSessions) \ {sid}})
           g == NewObj(heap)
       IN  \E r \in GetRandomWordEntryExcluding(completedWords, ctxDone, randErr) :
              /\ GameSessions' = MapPut(GameSessions, sid, g)
              /\ games' = MapPut(heap, g, FreshGame(r[1], now))
              /\ selection' = [op |-> "CreateNewGameWithCompletedWords",
                               completedWords |-> completedWords,
                               ctxDone |-> ctxDone, randErr |-> randErr,
                               word |-> r[1], needsReset |-> r[2]]
              /\ got' = [NoGot EXCEPT !.op = "create", !.sid = sid, !.at = now, !.ptr = g]
    /\ UNCHANGED <<now, SessionMutex, sweptGames, limiterVars, pc, loc, unlockedWrites,
                   lockedCalls, last, clock, request, bulk, scoring, RuneBufPool, runeBufs,
                   checkers, loaded>>

NextCreate ==
    \/ Tick
    \/ \E sid \in GetSessions, c \in CompletedInputs :
          CreateNewGameWithCompletedWords(sid, c, FALSE, FALSE)
    \/ \E sid \in GetSessions, raw \in GetGuesses : PlayCall(sid, raw)

SpecCreate == Init /\ [][NextCreate]_vars

\* ------------------------------------------------------------ loading the word files

\* the sequences over S of length n at most
SeqsUpTo(S, n) == UNION {[1..k -> S] : k \in 0..n}

\* the "word" values of the entries of data/words.json
FileWords == {APPLE, TABLE, ABLE}

\* the lines of data/accepted_words.txt
FileLines == {APPLE, TABLE, ABLE, <<" ", "a", "p", "p", "l", "e", " ">>, <<" ">>, EmptyString}

\* loadWords: lo.Filter(wl.Words, len(entry.Word) == 5)
LoadWordList(words) == SelectSeq(words, LAMBDA w : Len(w) = 5)

\* loadWords: wordSet[entry.Word] = struct{}{} for the entries kept
LoadWordSet(words) ==
    {LoadWordList(words)[i] : i \in 1..Len(LoadWordList(words))}

\* loadAcceptedWords: every line, trimmed, that is not empty, in upper case
LoadAcceptedWords(lines) ==
    {ToUpper(TrimSpace(lines[i])) : i \in {j \in 1..Len(lines) : TrimSpace(lines[j]) # EmptyString}}

InitLoad ==
    /\ InitApp
    /\ scoring = NoScoring
    /\ RuneBufPool = {}
    /\ runeBufs = <<>>
    /\ checkers = <<>>
    /\ selection = NoSelection
    /\ \E w \in SeqsUpTo(FileWords, MaxEntries), l \in SeqsUpTo(FileLines, MaxLines) :
          loaded = [NoLoaded EXCEPT !.words = w, !.lines = l]
    /\ got = NoGot

\* main: loadWords(), loadAcceptedWords(), app := &App{...}
Load ==
    /\ loaded.op = ""
    /\ loaded' = [loaded EXCEPT !.op = "load",
                                !.WordList = LoadWordList(loaded.words),
                                !.WordSet = LoadWordSet(loaded.words),
                                !.AcceptedWordSet = LoadAcceptedWords(loaded.lines)]
    /\ UNCHANGED <<now, sessionVars, limiterVars, pc, loc, unlockedWrites, lockedCalls, last,
                   clock, request, bulk, scoring, RuneBufPool, runeBufs, checkers, selection, got>>

NextLoad == Load

SpecLoad == InitLoad /\ [][NextLoad]_vars

\* ------------------------------------------------------------ reclaiming stale entries

\* an hour passes, for ever: once now has reached MaxTime the clock is left
\* there and every last-access time is moved back by an hour instead.  The
\* caches read these times only through their distance to now, and a time
\* that has reached 0 while now = MaxTime is older than both TTLs.
TickOn ==
    /\ IF now < MaxTime
       THEN /\ now' = now + 1
            /\ UNCHANGED <<games, limiters>>
       ELSE /\ now' = now
            /\ games' = [g \in DOMAIN games |->
                            [games[g] EXCEPT !.LastAccessTime = Max(0, @ - 1)]]
            /\ limiters' = [l \in DOMAIN limiters |->
                               [limiters[l] EXCEPT !.LastAccess = Max(0, @ - 1)]]
    /\ UNCHANGED <<GameSessions, SessionMutex, sweptGames, LimiterMap, LimiterMutex, pc, loc,
                   unlockedWrites, lockedCalls, last, clock, request, bulk, pureVars>>

\* a request of the session runs GetGameState, between two sweeps
TouchSession(sid) ==
    /\ CanLock(SessionMutex)
    /\ \E r \in GetGameStateAlone(GameSessions, games, sid, now) :
          /\ GameSessions' = r.sessions
          /\ games' = Restrict(r.heap, {r.sessions[s] : s \in DOMAIN r.sessions})
    /\ sweptGames' = sweptGames \cap DOMAIN games'
    /\ UNCHANGED <<now, SessionMutex, limiterVars, pc, loc, unlockedWrites, lockedCalls, last,
                   clock, request, bulk, pureVars>>

\* a request of the client runs getLimiter, between two sweeps
TouchLimiter(key) ==
    /\ CanLock(LimiterMutex)
    /\ LET r == GetLimiterAlone(LimiterMap, limiters, key, now)
       IN  /\ LimiterMap' = r.lmap
           /\ limiters' = r.heap
    /\ UNCHANGED <<now, sessionVars, LimiterMutex, pc, loc, unlockedWrites, lockedCalls, last,
                   clock, request, bulk, pureVars>>

NextReclaim ==
    \/ TickOn
    \/ \E sid \in Sessions : TouchSession(sid)
    \/ \E key \in Keys : TouchLimiter(key)
    \/ SweepSessionsLock
    \/ SweepSessionsRun
    \/ SweepLimitersLock
    \/ SweepLimitersRun

\* time passes, and the two tickers of startCleanupRoutines keep firing:
\* each sweeper goroutine takes its lock and runs whenever it can
SpecReclaim ==
    /\ Init
    /\ [][NextReclaim]_vars
    /\ WF_vars(TickOn)
    /\ WF_vars(SweepSessionsLock)
    /\ WF_vars(SweepSessionsRun)
    /\ WF_vars(SweepLimitersLock)
    /\ WF_vars(SweepLimitersRun)

\* ------------------------------------------------------------ guess requests, step by step

\* the guesses of the requests that run side by side
RaceGuesses == {APPLE, TABLE}

\* the guesses of the requests that are served one after the other
FillGuesses == <<PLEAP, LABEL, BLEAT, PETAL, PLATE>>

\* GetGameState for a session that has no game: CreateNewGame stores one
FirstRequest(sid) ==
    /\ sid \notin DOMAIN GameSessions
    /\ LET heap == Restrict(games, LiveGames(GameSessions, loc))
           g == NewObj(heap)
       IN  \E w \in GetRandomWordEntry(FALSE, FALSE) :
              /\ GameSessions' = MapPut(GameSessions, sid, g)
              /\ games' = MapPut(heap, g, FreshGame(w, now))
    /\ sweptGames' = sweptGames \cap DOMAIN games'
    /\ UNCHANGED <<now, SessionMutex, limiterVars, pc, loc, unlockedWrites, lockedCalls, last,
                   clock, request, bulk, pureVars>>

\* a guess request that is served while no other request of the session is
\* under way: GuessHandler as a whole, with the next word of FillGuesses
FillRequest(sid) ==
    /\ \A p \in Flows : pc[p] \in {"idle", "done", "panic"}
    /\ sid \in DOMAIN GameSessions
    /\ CanLock(SessionMutex)
    /\ LET game == games[GameSessions[sid]]
       IN  /\ game.CurrentRow < Len(FillGuesses)
           /\ GuessError(game, FillGuesses[game.CurrentRow + 1]) = ""
           /\ \E g \in ProcessGuess(game, FillGuesses[game.CurrentRow + 1], now) :
                 games' = [games EXCEPT ![GameSessions[sid]] = g]
    /\ UNCHANGED <<now, GameSessions, SessionMutex, sweptGames, limiterVars, pc, loc,
                   unlockedWrites, lockedCalls, last, clock, request, bulk, pureVars>>

GuessFrame ==
    UNCHANGED <<now, limiterVars, lockedCalls, last, clock, request, bulk, scoring, RuneBufPool,
                runeBufs, checkers, selection, loaded>>

\* GuessHandler: GetGameState finds the game of the session under the
\* shared lock and releases the lock
StartGuess(p, sid, guess) ==
    /\ pc[p] \in {"idle", "done", "panic"}
    /\ sid \in DOMAIN GameSessions
    /\ CanRLock(SessionMutex)
    /\ pc' = [pc EXCEPT ![p] = "guess_touch"]
    /\ loc' = [loc EXCEPT ![p] = [IdleLoc EXCEPT !.op = "guess", !.sid = sid, !.guess = guess,
                                                  !.game = GameSessions[sid], !.exists = TRUE]]
    /\ games' = Restrict(games, LiveGames(GameSessions, loc'))
    /\ sweptGames' = sweptGames \cap DOMAIN games'
    /\ got' = NoGot
    /\ UNCHANGED <<GameSessions, SessionMutex, unlockedWrites>>
    /\ GuessFrame

\* GetGameState, exists: Lock(); gameState.LastAccessTime = time.Now(); Unlock()
GuessTouch(p) ==
    /\ pc[p] = "guess_touch"
    /\ CanLock(SessionMutex)
    /\ games' = [games EXCEPT ![loc[p].game].LastAccessTime = now]
    /\ pc' = [pc EXCEPT ![p] = "guess_check"]
    /\ UNCHANGED <<GameSessions, SessionMutex, sweptGames, loc, unlockedWrites, got>>
    /\ GuessFrame

\* GuessHandler and ProcessGuess: the checks; an error code is rendered and
\* the request returns
GuessCheck(p) ==
    /\ pc[p] = "guess_check"
    /\ LET code == GuessError(games[loc[p].game], loc[p].guess)
       IN  /\ loc' = [loc EXCEPT ![p].code = code]
           /\ pc' = [pc EXCEPT ![p] = IF code = "" THEN "upd_guard" ELSE "done"]
    /\ UNCHANGED <<GameSessions, games, SessionMutex, sweptGames, unlockedWrites, got>>
    /\ GuessFrame

\* UpdateGameState: if game.CurrentRow >= constants.MaxGuesses { return }
UpdGuard(p) ==
    /\ pc[p] = "upd_guard"
    /\ pc' = [pc EXCEPT ![p] = IF UpdateGuard(games[loc[p].game]) THEN "save" ELSE "upd_write"]
    /\ UNCHANGED <<GameSessions, games, SessionMutex, sweptGames, loc, unlockedWrites, got>>
    /\ GuessFrame

\* UpdateGameState: game.Guesses[game.CurrentRow] = result, with the
\* CurrentRow of this moment: an index past the last row is a run-time
\* panic; then the append to GuessHistory and LastAccessTime.  No lock is held.
UpdWrite(p) ==
    /\ pc[p] = "upd_write"
    /\ LET game == games[loc[p].game]
       IN  /\ loc' = [loc EXCEPT ![p].wrote = game.CurrentRow]
           /\ IF game.CurrentRow >= MaxGuesses
              THEN /\ pc' = [pc EXCEPT ![p] = "panic"]
                   /\ UNCHANGED <<games, unlockedWrites>>
              ELSE /\ pc' = [pc EXCEPT ![p] = "upd_win"]
                   /\ games' = [games EXCEPT ![loc[p].game] =
                                   WriteRow(game, loc[p].guess,
                                            CheckGuess(loc[p].guess, game.SessionWord), now)]
                   /\ unlockedWrites' =
                         NoteWrite(SessionMutex, p, "UpdateGameState:LastAccessTime")
    /\ UNCHANGED <<GameSessions, SessionMutex, sweptGames, got>>
    /\ GuessFrame

\* UpdateGameState: the winning branch, or the load of game.CurrentRow++
UpdWin(p) ==
    /\ pc[p] = "upd_win"
    /\ LET game == games[loc[p].game]
       IN  IF IsWinningGuess(loc[p].guess, game.SessionWord, ~IsValidWord(loc[p].guess))
           THEN /\ games' = [games EXCEPT ![loc[p].game] =
                                RevealTarget(AfterWin(game), game.SessionWord)]
                /\ pc' = [pc EXCEPT ![p] = "save"]
                /\ loc' = loc
           ELSE /\ loc' = [loc EXCEPT ![p].row = game.CurrentRow]
                /\ pc' = [pc EXCEPT ![p] = "upd_store"]
                /\ games' = games
    /\ UNCHANGED <<GameSessions, SessionMutex, sweptGames, unlockedWrites, got>>
    /\ GuessFrame

\* UpdateGameState: the store of game.CurrentRow++, the test for the last
\* row, and if game.GameOver { game.TargetWord = targetWord }
UpdStore(p) ==
    /\ pc[p] = "upd_store"
    /\ LET game == games[loc[p].game]
       IN  games' = [games EXCEPT ![loc[p].game] =
                        RevealTarget(AfterMiss([game EXCEPT !.CurrentRow = loc[p].row]),
                                     game.SessionWord)]
    /\ pc' = [pc EXCEPT ![p] = "save"]
    /\ UNCHANGED <<GameSessions, SessionMutex, sweptGames, loc, unlockedWrites, got>>
    /\ GuessFrame

\* a variant of SaveGameStateStep that leaves the map alone
SaveGameStateWithoutInsert(p) ==
    /\ pc[p] = "save"
    /\ CanLock(SessionMutex)
    /\ games' = [games EXCEPT ![loc[p].game].LastAccessTime = now]
    /\ pc' = [pc EXCEPT ![p] = "done"]
    /\ got' = [op |-> "saved", sid |-> loc[p].sid, at |-> now, ptr |-> loc[p].game,
               sessions |-> GameSessions, heap |-> games']
    /\ UNCHANGED <<GameSessions, SessionMutex, sweptGames, loc, unlockedWrites>>
    /\ GuessFrame

\* SaveGameState: Lock(); app.GameSessions[sessionID] = game;
\* game.LastAccessTime = time.Now(); Unlock(); the response is rendered and
\* the request returns.  The cache of that moment is kept in got.
SaveGameStateStep(p) ==
    /\ pc[p] = "save"
    /\ CanLock(SessionMutex)
    /\ GameSessions' = MapPut(GameSessions, loc[p].sid, loc[p].game)
    /\ games' = Restrict([games EXCEPT ![loc[p].game].LastAccessTime = now],
                         LiveGames(GameSessions', loc))
    /\ sweptGames' = sweptGames \ {loc[p].game}
    /\ pc' = [pc EXCEPT ![p] = "done"]
    /\ got' = [op |-> "saved", sid |-> loc[p].sid, at |-> now, ptr |-> loc[p].game,
               sessions |-> GameSessions', heap |-> games']
    /\ UNCHANGED <<SessionMutex, loc, unlockedWrites>>
    /\ GuessFrame

\* GuessHandler of one request
GuessFlow(p) ==
    \/ \E sid \in Sessions, guess \in RaceGuesses : StartGuess(p, sid, guess)
    \/ GuessTouch(p)
    \/ GuessCheck(p)
    \/ UpdGuard(p)
    \/ UpdWrite(p)
    \/ UpdWin(p)
    \/ UpdStore(p)
    \/ SaveGameStateStep(p)

\* two guess requests of one session side by side
NextRace ==
    \/ \E sid \in Sessions : FirstRequest(sid)
    \/ \E sid \in Sessions : FillRequest(sid)
    \/ \E p \in Flows : GuessFlow(p)

SpecRace == Init /\ [][NextRace]_vars

\* one guess request beside the session sweep
NextSubmit ==
    \/ Tick
    \/ \E sid \in Sessions : FirstRequest(sid)
    \/ GuessFlow("f1")
    \/ SweepSessionsLock
    \/ SweepSessionsRun

SpecSubmit == Init /\ [][NextSubmit]_vars

\* ------------------------------------------------------------ the lock protocol

\* a request calls RetryWordHandler or HealthzHandler
StartRequest(p, op, sid) ==
    /\ pc[p] \in {"idle", "done", "panic"}
    /\ pc' = [pc EXCEPT ![p] = IF op = "retry" THEN "retry_lock" ELSE "healthz_sessions"]
    /\ loc' = [loc EXCEPT ![p] = [IdleLoc EXCEPT !.op = op, !.sid = sid]]
    /\ games' = Restrict(games, LiveGames(GameSessions, loc'))
    /\ sweptGames' = sweptGames \cap DOMAIN games'
    /\ limiters' = Restrict(limiters, LiveLimiters(LimiterMap, loc'))
    /\ UNCHANGED <<now, GameSessions, SessionMutex, LimiterMap, LimiterMutex, unlockedWrites,
                   lockedCalls, last, clock, request, bulk, pureVars>>

\* RetryWordHandler: app.SessionMutex.Lock()
RetryLock(p) ==
    /\ pc[p] = "retry_lock"
    /\ CanLock(SessionMutex)
    /\ SessionMutex' = Lock(SessionMutex, p)
    /\ pc' = [pc EXCEPT ![p] = "retry_store"]
    /\ UNCHANGED <<now, GameSessions, games, sweptGames, limiterVars, loc, unlockedWrites,
                   lockedCalls, last, clock, request, bulk, pureVars>>

\* RetryWordHandler: the lookup; !exists: Unlock() and on to CreateNewGame;
\* otherwise the new GameState is stored and Unlock()
RetryStore(p) ==
    /\ pc[p] = "retry_store"
    /\ LET sid == loc[p].sid
       IN  IF sid \notin DOMAIN GameSessions
           THEN /\ pc' = [pc EXCEPT ![p] = "create_pick"]
                /\ UNCHANGED <<GameSessions, games, sweptGames, loc, unlockedWrites>>
           ELSE LET g == NewObj(games)
                    heap == MapPut(games, g, RetryGame(games[GameSessions[sid]], now))
                IN  /\ GameSessions' = MapPut(GameSessions, sid, g)
                    /\ loc' = [loc EXCEPT ![p].game = g]
                    /\ games' = Restrict(heap, LiveGames(GameSessions', loc'))
                    /\ sweptGames' = sweptGames \cap DOMAIN games'
                    /\ unlockedWrites' =
                          NoteWrite(SessionMutex, p, "RetryWordHandler:GameSessions")
                    /\ pc' = [pc EXCEPT ![p] = "done"]
    /\ SessionMutex' = Unlock(SessionMutex)
    /\ UNCHANGED <<now, limiterVars, lockedCalls, last, clock, request, bulk, pureVars>>

\* HealthzHandler: SessionMutex.RLock(); len(app.GameSessions); RUnlock()
HealthzSessions(p) ==
    /\ pc[p] = "healthz_sessions"
    /\ CanRLock(SessionMutex)
    /\ pc' = [pc EXCEPT ![p] = "healthz_limiters"]
    /\ UNCHANGED <<now, sessionVars, limiterVars, loc, unlockedWrites, lockedCalls, last, clock,
                   request, bulk, pureVars>>

\* HealthzHandler: LimiterMutex.RLock(); len(app.LimiterMap); RUnlock()
HealthzLimiters(p) ==
    /\ pc[p] = "healthz_limiters"
    /\ CanRLock(LimiterMutex)
    /\ pc' = [pc EXCEPT ![p] = "done"]
    /\ UNCHANGED <<now, sessionVars, limiterVars, loc, unlockedWrites, lockedCalls, last, clock,
                   request, bulk, pureVars>>

\* the steps of a request that is under way
RequestSteps(p) ==
    \/ GetRLock(p)
    \/ GetRead(p)
    \/ GetLock(p)
    \/ GetTouch(p)
    \/ CreatePick(p)
    \/ CreateStore(p)
    \/ CreateStoreFatal(p)
    \/ LimRLock(p)
    \/ LimRead(p)
    \/ LimLockTouch(p)
    \/ LimTouch(p)
    \/ LimLockCreate(p)
    \/ LimCreate(p)
    \/ RetryLock(p)
    \/ RetryStore(p)
    \/ HealthzSessions(p)
    \/ HealthzLimiters(p)

NextLocks ==
    \/ \E p \in Flows, sid \in Sessions : StartGet(p, sid)
    \/ \E p \in Flows, key \in AdmitKeys : StartGetLimiter(p, key)
    \/ \E p \in Flows, op \in {"retry", "healthz"}, sid \in Sessions : StartRequest(p, op, sid)
    \/ \E p \in Flows : RequestSteps(p)
    \/ SweepSessionsLock
    \/ SweepSessionsRun
    \/ SweepLimitersLock
    \/ SweepLimitersRun

\* every goroutine that can run does run, and a goroutine that waits for a
\* lock gets it when the lock is free again and again (sync.RWMutex does not
\* starve a waiter)
SpecLocks ==
    /\ Init
    /\ [][NextLocks]_vars
    /\ \A p \in Flows : SF_vars(RequestSteps(p))
    /\ WF_vars(SweepSessionsRun)
    /\ WF_vars(SweepLimitersRun)

\* ------------------------------------------------------------ claims: caches

\* C1: concurrent GetGameState calls for one session id that is not removed
\* meanwhile all return the same GameState, and only one of them creates it.
C1_SingleCreation ==
    \A p \in Flows, q \in Flows :
        ( /\ p # q
          /\ pc[p] = "done" /\ pc[q] = "done"
          /\ loc[p].op = "get" /\ loc[q].op = "get"
          /\ loc[p].sid = loc[q].sid
          /\ ~loc[p].removed /\ ~loc[q].removed )
        => /\ loc[p].game = loc[q].game
           /\ ~(loc[p].created /\ loc[q].created)

\* C2: GetGameState never returns a GameState that the session sweep has
\* deleted from the cache.
C2_GetNeverReturnsSwept ==
    \A p \in Flows : (pc[p] = "done" /\ loc[p].op = "get") => ~loc[p].swept

\* C4: every write of a cache map or of a last-access time is made by a flow
\* that holds the exclusive lock of that cache.
C4_WritesUnderExclusiveLock == unlockedWrites = {}

\* C3: concurrent getLimiter calls for one key that is not removed meanwhile
\* all return the same limiter, and only one of them creates it.
C3_OneLimiterPerKey ==
    \A p \in Flows, q \in Flows :
        ( /\ p # q
          /\ pc[p] = "done" /\ pc[q] = "done"
          /\ loc[p].op = "limiter" /\ loc[q].op = "limiter"
          /\ loc[p].key = loc[q].key
          /\ ~loc[p].removed /\ ~loc[q].removed )
        => /\ loc[p].lim = loc[q].lim
           /\ loc[p].lim # Nil
           /\ LimiterMap[loc[p].key] = loc[p].lim
           /\ ~(loc[p].created /\ loc[q].created)

\* two calls for one key that both missed on the shared-lock lookup and
\* have both returned
C3_Witness ==
    \E p \in Flows, q \in Flows :
        /\ p # q
        /\ pc[p] = "done" /\ pc[q] = "done"
        /\ loc[p].op = "limiter" /\ loc[q].op = "limiter"
        /\ loc[p].key = loc[q].key
        /\ ~loc[p].exists /\ ~loc[q].exists
        /\ ~loc[p].removed /\ ~loc[q].removed
        /\ loc[p].created /\ ~loc[q].created
        /\ loc[p].lim = loc[q].lim

\* ------------------------------------------------------------ claims: game

\* the games in the session cache
CachedGames == {games[GameSessions[sid]] : sid \in DOMAIN GameSessions}

\* the rows of a game that hold a score
FilledRows(game) == {r \in 1..MaxGuesses : game.Guesses[r] # EmptyRow}

\* C5: UpdateGameState called on a game that is already over (won or lost)
\* leaves rows, currentRow, gameOver, won, targetWord and guessHistory as
\* they were.
C5_TerminalIsNoOp ==
    (last.op = "transition" /\ last.before.GameOver)
    => /\ last.after.Guesses = last.before.Guesses
       /\ last.after.CurrentRow = last.before.CurrentRow
       /\ last.after.GameOver = last.before.GameOver
       /\ last.after.Won = last.before.Won
       /\ last.after.TargetWord = last.before.TargetWord
       /\ last.after.GuessHistory = last.before.GuessHistory

\* C6: after MaxGuesses UpdateGameState calls on a fresh game, none of them
\* winning, the game is over, not won, currentRow is MaxGuesses and
\* targetWord is the target; after fewer such calls the game is not over.
C6_LossAfterMaxGuesses ==
    \A g \in CachedGames :
        ~last.anyWin
        => /\ last.calls < MaxGuesses => ~g.GameOver
           /\ last.calls = MaxGuesses
                => /\ g.GameOver
                   /\ ~g.Won
                   /\ g.CurrentRow = MaxGuesses
                   /\ g.TargetWord = g.SessionWord
                   /\ g.TargetWord # EmptyString

\* the sixth call in a row that did not win has just been made
C6_Witness ==
    /\ last.op = "transition"
    /\ ~last.anyWin
    /\ last.calls = MaxGuesses
    /\ \E g \in CachedGames : g.GameOver /\ ~g.Won

\* C7: UpdateGameState on a game in progress with a valid guess equal to
\* the target sets won and gameOver, sets targetWord to the target and
\* leaves currentRow as it was, on every row.
C7_WinningTransition ==
    ( /\ last.op = "transition"
      /\ ~last.before.GameOver
      /\ last.before.CurrentRow < MaxGuesses
      /\ ~last.isInvalid
      /\ last.guess = last.before.SessionWord )
    => /\ last.after.Won
       /\ last.after.GameOver
       /\ last.after.TargetWord = last.before.SessionWord
       /\ last.after.CurrentRow = last.before.CurrentRow

\* a winning call on the last row
C7_Witness ==
    /\ last.op = "transition"
    /\ ~last.before.GameOver
    /\ last.before.CurrentRow = MaxGuesses - 1
    /\ ~last.isInvalid
    /\ last.guess = last.before.SessionWord
    /\ last.after.Won

\* C8: whatever handlers ran, one at a time: won implies gameOver,
\* currentRow is within 0..MaxGuesses, and currentRow = MaxGuesses exactly
\* when the game is over and not won.
C8_GameInvariant ==
    \A g \in CachedGames :
        /\ g.Won => g.GameOver
        /\ g.CurrentRow \in 0..MaxGuesses
        /\ (g.CurrentRow = MaxGuesses) <=> (g.GameOver /\ ~g.Won)

\* a guess has just lost the game on the last row
C8_Witness ==
    /\ last.op = "guess"
    /\ last.code = ""
    /\ ~last.before.GameOver
    /\ \E g \in CachedGames : g.CurrentRow = MaxGuesses /\ g.GameOver /\ ~g.Won

\* C9: whatever handlers ran, one at a time: targetWord is non-empty
\* exactly when the game is over, and then it is the sessionWord.
C9_TargetRevealedOnlyWhenOver ==
    \A g \in CachedGames :
        /\ (g.TargetWord # EmptyString) <=> g.GameOver
        /\ g.TargetWord # EmptyString => g.TargetWord = g.SessionWord

\* a retry has just replaced a finished game, whose target was revealed
C9_Witness ==
    /\ last.op = "retry"
    /\ last.before.GameOver
    /\ last.before.TargetWord = last.before.SessionWord
    /\ \E g \in CachedGames :
          /\ g.SessionWord = last.before.SessionWord
          /\ g.TargetWord = EmptyString
          /\ ~g.GameOver

\* C10: whatever handlers ran, one at a time: guessHistory is as long as
\* the number of filled rows, it lists the scored guesses in the order of
\* their submission, and no guess is in it twice.
C10_GuessHistory ==
    \A g \in CachedGames :
        /\ Len(g.GuessHistory) = Cardinality(FilledRows(g))
        /\ g.GuessHistory = last.submitted
        /\ \A i \in 1..Len(g.GuessHistory), j \in 1..Len(g.GuessHistory) :
              i # j => g.GuessHistory[i] # g.GuessHistory[j]

\* six different guesses have been scored, the last one just now
C10_Witness ==
    /\ last.op = "guess"
    /\ last.code = ""
    /\ \E g \in CachedGames :
          /\ Len(g.GuessHistory) = MaxGuesses
          /\ g.GuessHistory[1] # g.GuessHistory[MaxGuesses]

\* C11: a get, a guess submission (with its save), a retry or a
\* GetTargetWord call leaves a non-empty sessionWord as it was, and
\* GetTargetWord returns it; an empty sessionWord is changed only by the
\* backfill of GetTargetWord, which sets a word of the catalog.
C11_SessionWordFixed ==
    last.op \in {"get", "guess", "retry", "target"}
    => IF last.before.SessionWord # EmptyString
       THEN /\ last.after.SessionWord = last.before.SessionWord
            /\ last.op = "target" => last.guess = last.before.SessionWord
       ELSE \/ last.after.SessionWord = EmptyString
            \/ /\ last.op = "target" \/ (last.op = "guess" /\ last.code = "")
               /\ last.after.SessionWord \in WordSet

\* GetTargetWord has just been called on a game that a guess had changed
C11_Witness ==
    /\ last.op = "target"
    /\ last.before.SessionWord # EmptyString
    /\ last.before.CurrentRow > 0
    /\ last.guess = last.before.SessionWord

\* GetTargetWord has just backfilled an empty sessionWord
C11_BackfillWitness ==
    /\ last.op = "target"
    /\ last.before.SessionWord = EmptyString
    /\ last.after.SessionWord \in WordSet

\* the fields of a game that a guess submission can change
SameGame(a, b) ==
    /\ a.Guesses = b.Guesses
    /\ a.CurrentRow = b.CurrentRow
    /\ a.GameOver = b.GameOver
    /\ a.Won = b.Won
    /\ a.TargetWord = b.TargetWord
    /\ a.SessionWord = b.SessionWord
    /\ a.GuessHistory = b.GuessHistory

\* C12: a submitted guess whose normalized form is already in guessHistory
\* is rejected with duplicate_guess, and currentRow, the rows and
\* guessHistory are as before.
C12_DuplicateRejected ==
    (last.op = "guess" /\ Contains(last.before.GuessHistory, last.guess))
    => /\ last.code = ErrorCodeDuplicateGuess
       /\ last.after.CurrentRow = last.before.CurrentRow
       /\ last.after.Guesses = last.before.Guesses
       /\ last.after.GuessHistory = last.before.GuessHistory

\* C12, amended: such a guess is rejected with duplicate_guess while the
\* game is in progress and with game_over once the game is over; in both
\* cases currentRow, the rows and guessHistory are as before.
C12_DuplicateRejectedUnlessOver ==
    (last.op = "guess" /\ Contains(last.before.GuessHistory, last.guess))
    => /\ last.code = IF last.before.GameOver THEN ErrorCodeGameOver
                      ELSE ErrorCodeDuplicateGuess
       /\ last.after.CurrentRow = last.before.CurrentRow
       /\ last.after.Guesses = last.before.Guesses
       /\ last.after.GuessHistory = last.before.GuessHistory

\* a guess already in the history of a game in progress has just been
\* rejected
C12_Witness ==
    /\ last.op = "guess"
    /\ Contains(last.before.GuessHistory, last.guess)
    /\ ~last.before.GameOver
    /\ last.code = ErrorCodeDuplicateGuess

\* C13: a rejected guess submission returns one of the five error codes
\* and leaves rows, currentRow, gameOver, won, targetWord, sessionWord and
\* guessHistory as they were.
C13_RejectionLeavesGame ==
    (last.op = "guess" /\ last.code # "")
    => /\ last.code \in {ErrorCodeInvalidLength, ErrorCodeGameOver, ErrorCodeNoMoreGuesses,
                         ErrorCodeWordNotAccepted, ErrorCodeDuplicateGuess}
       /\ SameGame(last.after, last.before)
       /\ \A g \in CachedGames : SameGame(g, last.before)

\* a guess of the wrong length has just been rejected on a game with
\* guesses in it
C13_Witness ==
    /\ last.op = "guess"
    /\ last.code = ErrorCodeInvalidLength
    /\ last.before.CurrentRow > 0
    /\ \E g \in CachedGames : g.CurrentRow = last.before.CurrentRow

\* the checks a submitted guess fails
FailsLength(guess) == Len(guess) # WordLength
FailsDuplicate(game, guess) == Contains(game.GuessHistory, guess)
FailsAcceptance(guess) == guess \notin AcceptedWordSet
FailsTerminal(game) == game.GameOver \/ game.CurrentRow >= MaxGuesses

\* C14: the code reported for a submitted guess is that of the first check
\* it fails in the order length, duplicate, acceptance, terminal state.
C14_OrderLengthFirst ==
    last.op = "guess"
    => /\ FailsLength(last.guess) => last.code = ErrorCodeInvalidLength
       /\ (~FailsLength(last.guess) /\ FailsDuplicate(last.before, last.guess))
            => last.code = ErrorCodeDuplicateGuess
       /\ ( /\ ~FailsLength(last.guess) /\ ~FailsDuplicate(last.before, last.guess)
            /\ FailsAcceptance(last.guess) )
            => last.code = ErrorCodeWordNotAccepted
       /\ ( /\ ~FailsLength(last.guess) /\ ~FailsDuplicate(last.before, last.guess)
            /\ ~FailsAcceptance(last.guess) /\ FailsTerminal(last.before) )
            => last.code \in {ErrorCodeGameOver, ErrorCodeNoMoreGuesses}

\* C14, amended: the code reported is that of the first check failed in
\* the order game over, acceptance, duplicate, length, no attempts left.
C14_OrderTerminalFirst ==
    last.op = "guess"
    => /\ last.before.GameOver => last.code = ErrorCodeGameOver
       /\ (~last.before.GameOver /\ FailsAcceptance(last.guess))
            => last.code = ErrorCodeWordNotAccepted
       /\ ( /\ ~last.before.GameOver /\ ~FailsAcceptance(last.guess)
            /\ FailsDuplicate(last.before, last.guess) )
            => last.code = ErrorCodeDuplicateGuess
       /\ ( /\ ~last.before.GameOver /\ ~FailsAcceptance(last.guess)
            /\ ~FailsDuplicate(last.before, last.guess) /\ FailsLength(last.guess) )
            => last.code = ErrorCodeInvalidLength
       /\ ( /\ ~last.before.GameOver /\ ~FailsAcceptance(last.guess)
            /\ ~FailsDuplicate(last.before, last.guess) /\ ~FailsLength(last.guess) )
            => last.code = IF last.before.CurrentRow >= MaxGuesses
                           THEN ErrorCodeNoMoreGuesses ELSE ""

\* a guess that is neither of the right length nor accepted has just been
\* submitted on a game that is over
C14_Witness ==
    /\ last.op = "guess"
    /\ last.before.GameOver
    /\ FailsLength(last.guess)
    /\ FailsAcceptance(last.guess)
    /\ last.code = ErrorCodeGameOver

\* C15: a retry on a session with a cached game stores, while it holds the
\* exclusive lock, a game with the same sessionWord, currentRow 0, not
\* over, not won, empty targetWord, empty guessHistory and empty rows,
\* whatever the game was before.
C15_RetryResets ==
    last.op = "retry"
    => /\ last.after.SessionWord = last.before.SessionWord
       /\ last.after.CurrentRow = 0
       /\ ~last.after.GameOver
       /\ ~last.after.Won
       /\ last.after.TargetWord = EmptyString
       /\ last.after.GuessHistory = <<>>
       /\ last.after.Guesses = EmptyGuesses
       /\ CachedGames = {last.after}
       /\ "RetryWordHandler:GameSessions" \notin unlockedWrites
       /\ SessionMutex = FreeMutex

\* a retry has just replaced a lost game
C15_Witness ==
    /\ last.op = "retry"
    /\ last.before.GameOver
    /\ ~last.before.Won
    /\ last.before.CurrentRow = MaxGuesses
    /\ last.after.CurrentRow = 0

\* C16: a session sweep removes every entry whose lastAccessTime is older
\* than the TTL when the sweep runs and keeps every other entry, with the
\* game it had.
C16_SessionSweep ==
    [][ (pc[SessionSweeper] = "sweep" /\ pc'[SessionSweeper] = "idle")
        => \A s \in DOMAIN GameSessions :
              IF now - games[GameSessions[s]].LastAccessTime > SessionTTL
              THEN s \notin DOMAIN GameSessions'
              ELSE /\ s \in DOMAIN GameSessions'
                   /\ GameSessions'[s] = GameSessions[s] ]_vars

\* a sweep has removed the game that a finished request still holds, and
\* the cache is empty
C16_Witness ==
    /\ pc[SessionSweeper] = "idle"
    /\ sweptGames # {}
    /\ GameSessions = <<>>

\* a sweep is about to run over an entry that was touched after its
\* creation and is within the TTL
C16_SurvivorWitness ==
    /\ pc[SessionSweeper] = "sweep"
    /\ \E s \in DOMAIN GameSessions :
          /\ games[GameSessions[s]].LastAccessTime > 0
          /\ now - games[GameSessions[s]].LastAccessTime = SessionTTL

\* the entries that the TTL loop of the last sweep left
Survivors == Total(AfterTTL(bulk.before, bulk.at))

\* the entries with LastAccess t that the last sweep deleted
Removed(t) == bulk.before[t] - bulk.count[t]

\* C17: after a limiter sweep no entry older than the TTL remains, and
\* when the entries left by the TTL removal do not exceed the hard cap no
\* entry within the TTL is removed, even above the high-water mark.
C17_LimiterSweep ==
    bulk.op = "sweep"
    => /\ \A t \in 0..MaxTime : bulk.at - t > RateLimiterTTL => bulk.count[t] = 0
       /\ Survivors <= HardCap
            => \A t \in 0..MaxTime :
                  bulk.at - t <= RateLimiterTTL => bulk.count[t] = bulk.before[t]

\* a sweep has just removed stale entries and left more entries than the
\* high-water mark, but not more than the hard cap
C17_Witness ==
    /\ bulk.op = "sweep"
    /\ \E t \in 0..MaxTime : bulk.at - t > RateLimiterTTL /\ bulk.before[t] > 0
    /\ Survivors > HighWaterMark
    /\ Survivors <= HardCap
    /\ Total(bulk.count) = Survivors

\* C18: when the n entries left by the TTL removal exceed the hard cap,
\* the sweep removes floor(n/2) of them, and every removed entry has a
\* lastAccess no later than that of every entry that remains.
C18_EmergencyPurge ==
    (bulk.op = "sweep" /\ Survivors > HardCap)
    => /\ Survivors - Total(bulk.count) = Survivors \div 2
       /\ \A t1 \in 0..MaxTime, t2 \in 0..MaxTime :
             ( /\ bulk.at - t1 <= RateLimiterTTL
               /\ Removed(t1) > 0
               /\ bulk.count[t2] > 0 )
             => t1 <= t2

\* a sweep has just purged an odd number of entries of two ages, all of
\* the older ones and some of the newer ones
C18_Witness ==
    /\ bulk.op = "sweep"
    /\ Survivors > HardCap
    /\ Survivors % 2 = 1
    /\ \E t1 \in 0..MaxTime, t2 \in 0..MaxTime :
          /\ t1 < t2
          /\ bulk.at - t1 <= RateLimiterTTL
          /\ bulk.before[t1] > 0 /\ bulk.count[t1] = 0
          /\ bulk.count[t2] > 0 /\ bulk.count[t2] < bulk.before[t2]

\* ------------------------------------------------------------ claims: admission

\* C19: for a fresh client key with rps = 5 and burst = 10, of the admission
\* checks made at the instant its limiter is created the first ten succeed
\* and every later one fails; a check made a full refill interval (1/rps
\* second) or more after a failed one succeeds.
C19_TokenBucket ==
    /\ \A k \in AdmitKeys :
          LET s == request.stats[k]
          IN  (s.checks > 0 /\ clock = s.createdAt)
                 => s.allowedChecks = Min(s.checks, RateLimitBurst)
    /\ (request.checked /\ request.waited >= RefillTicks) => request.allowed

\* ten checks were allowed at once, the eleventh was refused, and the
\* twelfth, exactly one refill interval later, was allowed
C19_Witness ==
    /\ request.checked
    /\ request.allowed
    /\ request.waited = RefillTicks
    /\ LET s == request.stats[request.key]
       IN  /\ s.checks = RateLimitBurst + 2
           /\ s.allowedChecks = RateLimitBurst + 1
           /\ clock = s.createdAt + RefillTicks

\* the handlers of the actions that change the session cache: new game,
\* guess, retry
MutatingHandlers == {"newGameHandler", "guessHandler", "retryWordHandler"}

\* C20: a request for a new game, a guess or a retry that changes the
\* session cache or a game in it passed, before its handler ran, an admission
\* check that returned true; a request whose admission check returned false
\* changes no game state.
C20_AdmissionBeforeMutation ==
    /\ (request.handler \in MutatingHandlers /\ request.mutated)
          => (request.checked /\ request.allowed)
    /\ (request.checked /\ ~request.allowed) => ~request.mutated

\* ------------------------------------------------------------ claims: scoring

\* C21: for every guess and target of length L, CheckGuess returns exactly L
\* results, result i carries the letter guess[i], and position i is Correct
\* if and only if guess[i] = target[i]; a guess equal to the target scores
\* Correct at every position.
C21_CorrectIffEqual ==
    scoring.op = "CheckGuess"
    => /\ Len(scoring.result) = Len(scoring.target)
       /\ \A i \in 1..Len(scoring.target) :
             /\ scoring.result[i].Letter = scoring.guess[i]
             /\ scoring.result[i].Status = GuessStatusCorrect
                   <=> scoring.guess[i] = scoring.target[i]
       /\ scoring.guess = scoring.target
             => \A i \in 1..Len(scoring.target) :
                   scoring.result[i].Status = GuessStatusCorrect

\* a scored guess with an exact match and with a letter of the target in
\* another place
C21_Witness ==
    /\ scoring.op = "CheckGuess"
    /\ \E i \in 1..WordLength : scoring.result[i].Status = GuessStatusCorrect
    /\ \E i, j \in 1..WordLength :
          /\ scoring.guess[i] # scoring.target[i]
          /\ scoring.guess[i] = scoring.target[j]
          /\ scoring.result[i].Status = GuessStatusPresent

\* the number of positions of word w that hold letter c
CountIn(w, c) == Cardinality({i \in 1..Len(w) : w[i] = c})

\* the number of positions of the scored guess that hold letter c and are
\* Correct or Present
Matched(c) ==
    Cardinality({i \in 1..Len(scoring.guess) :
                    /\ scoring.guess[i] = c
                    /\ scoring.result[i].Status \in {GuessStatusCorrect, GuessStatusPresent}})

\* the letters of word w
LettersOf(w) == {w[i] : i \in 1..Len(w)}

\* C22: for every guess, target and letter c, the positions of the guess
\* that hold c and score Correct or Present number min(count of c in the
\* guess, count of c in the target); so they never exceed the count of c in
\* the target, and a guess that shares no letter with the target scores
\* Absent at every position.
C22_LetterCounts ==
    scoring.op = "CheckGuess"
    => /\ \A c \in LettersOf(scoring.guess) \cup LettersOf(scoring.target) :
             /\ Matched(c) = Min(CountIn(scoring.guess, c), CountIn(scoring.target, c))
             /\ Matched(c) <= CountIn(scoring.target, c)
       /\ LettersOf(scoring.guess) \cap LettersOf(scoring.target) = {}
             => \A i \in 1..WordLength : scoring.result[i].Status = GuessStatusAbsent

\* a scored guess that repeats a letter more often than the target holds
\* it, one of them an exact match
C22_Witness ==
    /\ scoring.op = "CheckGuess"
    /\ \E c \in LettersOf(scoring.guess) :
          /\ CountIn(scoring.guess, c) > CountIn(scoring.target, c)
          /\ CountIn(scoring.target, c) >= 1
          /\ \E i \in 1..WordLength :
                scoring.guess[i] = c /\ scoring.result[i].Status = GuessStatusCorrect
          /\ \E i \in 1..WordLength :
                scoring.guess[i] = c /\ scoring.result[i].Status = GuessStatusAbsent

\* a scored guess that shares no letter with its target
C22_DisjointWitness ==
    /\ scoring.op = "CheckGuess"
    /\ LettersOf(scoring.guess) \cap LettersOf(scoring.target) = {}

\* C23: among the positions of a guess that hold the same letter and are
\* not Correct, the Present marks go to the leftmost ones and the others are
\* Absent; the guess PLEAP against the target APPLE is Present at all five
\* positions.
C23_LeftmostPresent ==
    scoring.op = "CheckGuess"
    => /\ \A i, j \in 1..WordLength :
             ( /\ i < j
               /\ scoring.guess[i] = scoring.guess[j]
               /\ scoring.result[i].Status # GuessStatusCorrect
               /\ scoring.result[j].Status # GuessStatusCorrect )
             => /\ scoring.result[i].Status \in {GuessStatusPresent, GuessStatusAbsent}
                /\ scoring.result[j].Status \in {GuessStatusPresent, GuessStatusAbsent}
                /\ scoring.result[j].Status = GuessStatusPresent
                      => scoring.result[i].Status = GuessStatusPresent
       /\ (scoring.guess = PLEAP /\ scoring.target = APPLE)
             => \A i \in 1..WordLength : scoring.result[i].Status = GuessStatusPresent

\* a letter at two positions that are not exact matches: the left one is
\* Present, the right one Absent
C23_Witness ==
    /\ scoring.op = "CheckGuess"
    /\ \E i, j \in 1..WordLength :
          /\ i < j
          /\ scoring.guess[i] = scoring.guess[j]
          /\ scoring.result[i].Status = GuessStatusPresent
          /\ scoring.result[j].Status = GuessStatusAbsent

\* PLEAP was scored against APPLE
C23_ExampleWitness ==
    /\ scoring.op = "CheckGuess"
    /\ scoring.guess = PLEAP
    /\ scoring.target = APPLE

\* C24: the pooled scratch buffer of CheckGuess is not observable: in
\* every sequence of calls, concurrent ones included, each call returns what
\* a call with a freshly allocated copy of the target returns, and every
\* buffer that is in the pool is fully zeroed.
C24_PoolNotObservable ==
    /\ \A c \in DOMAIN checkers :
          checkers[c].pc = "done"
             => checkers[c].result = CheckGuess(checkers[c].guess, checkers[c].target)
    /\ \A b \in RuneBufPool :
          \A i \in 1..Len(runeBufs[b]) : runeBufs[b][i] = NUL

\* a call has finished on a buffer that an earlier call had put back, while
\* another call is in the middle of its passes
C24_Witness ==
    \E c, d \in DOMAIN checkers :
       /\ c # d
       /\ checkers[c].pc = "done"
       /\ checkers[c].reused
       /\ checkers[d].pc \in {"pass1", "pass2"}
       /\ checkers[d].i > 1
       /\ RuneBufPool # {}

\* ------------------------------------------------------------ claims: word selection

\* C25: with an exclusion list that leaves at least one catalog word,
\* GetRandomWordEntryExcluding returns a catalog word that is not in the
\* list and exhausted = false; with a list that covers every catalog word it
\* returns a word of the full catalog and exhausted = true.
C25_ExcludingSelection ==
    selection.op = "GetRandomWordEntryExcluding"
    => IF WordSet \ selection.completedWords # {}
       THEN /\ selection.word \in WordSet \ selection.completedWords
            /\ ~selection.needsReset
       ELSE /\ selection.word \in WordSet
            /\ selection.needsReset

\* a word was selected with one catalog word excluded and another left
C25_Witness ==
    /\ selection.op = "GetRandomWordEntryExcluding"
    /\ selection.completedWords \cap WordSet # {}
    /\ WordSet \ selection.completedWords # {}
    /\ ~selection.ctxDone /\ ~selection.randErr

\* a word was selected with every catalog word excluded
C25_ExhaustedWitness ==
    /\ selection.op = "GetRandomWordEntryExcluding"
    /\ WordSet \subseteq selection.completedWords
    /\ selection.needsReset

\* the first entry of the catalog, in catalog order, that is not excluded
FirstNotExcluded(completedWords) ==
    WordList[CHOOSE i \in 1..Len(WordList) :
                /\ WordList[i] \notin completedWords
                /\ \A k \in 1..(i - 1) : WordList[k] \in completedWords]

\* C26: when the request context is cancelled or the secure random source
\* fails, a word is still selected: GetRandomWordEntry returns the first
\* catalog entry, and GetRandomWordEntryExcluding returns the first catalog
\* entry that is not excluded (the first entry of the catalog when all are
\* excluded), with the exhausted flag of the case without a failure.
C26_FallbackSelection ==
    (selection.ctxDone \/ selection.randErr)
    => /\ selection.op = "GetRandomWordEntry" => selection.word = WordList[1]
       /\ selection.op = "GetRandomWordEntryExcluding"
             => /\ selection.needsReset <=> WordSet \subseteq selection.completedWords
                /\ selection.word =
                      IF WordSet \subseteq selection.completedWords THEN WordList[1]
                      ELSE FirstNotExcluded(selection.completedWords)

\* the random source failed with the first catalog word excluded, and a
\* later one was selected
C26_Witness ==
    /\ selection.op = "GetRandomWordEntryExcluding"
    /\ selection.randErr
    /\ WordList[1] \in selection.completedWords
    /\ selection.word # WordList[1]
    /\ ~selection.needsReset

\* the context was cancelled and GetRandomWordEntry returned
C26_CancelledWitness ==
    /\ selection.op = "GetRandomWordEntry"
    /\ selection.ctxDone

\* ------------------------------------------------------------ claims: locks

\* C27: no request flow and no sweeper holds the session lock or the limiter
\* lock, shared or exclusive, while it renders output, performs I/O (a log
\* line included) or calls a random word selection routine.
C27_NoCallUnderLock == lockedCalls = {}

\* ------------------------------------------------------------ claims: get

\* C28: GetGameState for a session id that is in the cache, with no
\* concurrent operation on that id, returns the stored GameState itself,
\* refreshes its lastAccessTime, creates nothing, and leaves every other
\* field of that state and every other cache entry unchanged.
C28_GetExisting ==
    got.op = "hit"
    => /\ got.ptr = got.sessions[got.sid]
       /\ GameSessions = got.sessions
       /\ DOMAIN games = DOMAIN got.heap
       /\ games[got.ptr] = [got.heap[got.ptr] EXCEPT !.LastAccessTime = got.at]
       /\ \A g \in (DOMAIN games) \ {got.ptr} : games[g] = got.heap[g]

\* a game with a guess in it was fetched again later, while the cache
\* also holds the game of another session
C28_Witness ==
    /\ got.op = "hit"
    /\ got.heap[got.ptr].CurrentRow > 0
    /\ got.heap[got.ptr].LastAccessTime < got.at
    /\ \E s \in DOMAIN GameSessions : s # got.sid

\* ------------------------------------------------------------ claims: catalog

\* C29: after the catalog is loaded every target word is an accepted guess,
\* IsValidWord(w) implies IsAcceptedWord(w), whatever the two word files
\* hold.
C29_TargetsAccepted ==
    loaded.op = "load" => loaded.WordSet \subseteq loaded.AcceptedWordSet

\* ------------------------------------------------------------ claims: reclamation

\* C30: stale entries are reclaimed: with the sweepers scheduled fairly, a
\* session entry or a limiter entry that is never accessed again from some
\* point on is eventually removed from its cache; that is, every entry is
\* again and again absent from its cache or accessed.
C30_StaleReclaimed ==
    /\ \A sid \in Sessions :
          \/ []<>(sid \notin DOMAIN GameSessions)
          \/ []<><<TouchSession(sid)>>_vars
    /\ \A key \in Keys :
          \/ []<>(key \notin DOMAIN LimiterMap)
          \/ []<><<TouchLimiter(key)>>_vars

\* the session sweep has removed the only session while a limiter entry
\* older than its TTL is still waiting for the limiter sweep
C30_Witness ==
    /\ "cleanupStaleSessions:logInfo" \in lockedCalls
    /\ GameSessions = <<>>
    /\ \E key \in DOMAIN LimiterMap :
          limiters[LimiterMap[key]].LastAccess < now - RateLimiterTTL

\* ------------------------------------------------------------ claims: new games

\* C31: a new game for a session with a list of completed words stores in
\* the cache, under that session id, a fresh in-progress state (CurrentRow
\* 0, not over, not won, empty TargetWord, empty GuessHistory, MaxGuesses
\* rows) whose SessionWord is a catalog word not in the completed list,
\* unless the list covers the whole catalog, and then exhausted = true is
\* reported.
C31_CreateExcluding ==
    got.op = "create"
    => /\ got.sid \in DOMAIN GameSessions
       /\ GameSessions[got.sid] = got.ptr
       /\ LET game == games[got.ptr]
          IN  /\ game.CurrentRow = 0
              /\ ~game.GameOver
              /\ ~game.Won
              /\ game.TargetWord = EmptyString
              /\ game.GuessHistory = <<>>
              /\ Len(game.Guesses) = MaxGuesses
              /\ game.SessionWord = selection.word
              /\ game.SessionWord \in WordSet
              /\ IF WordSet \subseteq selection.completedWords
                 THEN selection.needsReset
                 ELSE /\ game.SessionWord \notin selection.completedWords
                      /\ ~selection.needsReset

\* a game that had been played was replaced by a new game whose word is
\* not one of the completed words
C31_Witness ==
    /\ got.op = "create"
    /\ selection.completedWords = {APPLE, PLEAP}
    /\ games[got.ptr].SessionWord = TABLE
    /\ got.at > 0
    /\ \E s \in DOMAIN GameSessions : s # got.sid /\ games[GameSessions[s]].CurrentRow > 0

\* every catalog word was completed: a catalog word is chosen all the same
\* and the exhaustion is reported
C31_ExhaustedWitness ==
    /\ got.op = "create"
    /\ selection.completedWords = {APPLE, TABLE}
    /\ selection.needsReset
    /\ games[got.ptr].SessionWord \in WordSet

\* ------------------------------------------------------------ claims: flagged guesses

\* C32: a transition whose guess is flagged isInvalid never sets Won, even
\* when the guess equals the target; while a row is left it fills the
\* current row, appends the guess to GuessHistory and advances CurrentRow
\* like any non-winning guess, and ends the game, without a win, when that
\* row was the last one.
C32_FlaggedNeverWins ==
    (last.op = "transition" /\ last.isInvalid)
    => /\ last.after.Won = last.before.Won
       /\ last.before.CurrentRow < MaxGuesses
          => /\ last.after.Guesses[last.before.CurrentRow + 1]
                    = CheckGuess(last.guess, last.before.SessionWord)
             /\ \A i \in 1..MaxGuesses :
                   i # last.before.CurrentRow + 1
                   => last.after.Guesses[i] = last.before.Guesses[i]
             /\ last.after.GuessHistory = Append(last.before.GuessHistory, last.guess)
             /\ last.after.CurrentRow = last.before.CurrentRow + 1
             /\ last.after.GameOver
                    = (last.before.GameOver \/ last.after.CurrentRow = MaxGuesses)
             /\ (last.after.CurrentRow = MaxGuesses /\ ~last.before.Won)
                => (last.after.GameOver /\ ~last.after.Won)

\* the flagged guess was the target itself, on a game in progress: the row
\* is filled with five Correct marks and the game goes on
C32_Witness ==
    /\ last.op = "transition"
    /\ last.isInvalid
    /\ last.guess = last.before.SessionWord
    /\ ~last.before.GameOver
    /\ last.before.CurrentRow > 0
    /\ last.after.CurrentRow = last.before.CurrentRow + 1
    /\ ~last.after.Won
    /\ ~last.after.GameOver

\* the flagged guess was the target on the last row: the game is lost
C32_LastRowWitness ==
    /\ last.op = "transition"
    /\ last.isInvalid
    /\ last.guess = last.before.SessionWord
    /\ ~last.before.GameOver
    /\ last.after.CurrentRow = MaxGuesses
    /\ last.after.GameOver
    /\ ~last.after.Won

\* ------------------------------------------------------------ claims: flagged keys

\* C33: an empty or loopback client key is flagged but not blocked:
\* getLimiter creates and returns a limiter for it as for any other key (the
\* warning is logged at creation), and its admission decisions follow the
\* token-bucket rule: of the checks made at the instant of creation the
\* first RateLimitBurst succeed and the later ones fail, and a check a
\* refill interval or more after a failed one succeeds.
C33_FlaggedNotBlocked ==
    /\ \A k \in FlaggedKeys :
          LET s == request.stats[k]
          IN  /\ s.checks > 0
                 => /\ k \in DOMAIN LimiterMap
                    /\ LimiterMap[k] \in DOMAIN limiters
                    /\ "getLimiter:logWarn" \in lockedCalls
              /\ (s.checks > 0 /\ clock = s.createdAt)
                 => s.allowedChecks = Min(s.checks, RateLimitBurst)
    /\ (request.checked /\ request.key \in FlaggedKeys /\ request.waited >= RefillTicks)
          => request.allowed

\* the empty key used up its burst at once, was refused, and was admitted
\* again a refill interval later, while the loopback key has a limiter too
C33_Witness ==
    /\ request.checked
    /\ request.key = ""
    /\ request.allowed
    /\ request.waited = RefillTicks
    /\ request.stats[""].allowedChecks = RateLimitBurst + 1
    /\ request.stats["::1"].checks > 0
    /\ "::1" \in DOMAIN LimiterMap

\* ------------------------------------------------------------ claims: getLimiter and the sweep

\* C34: getLimiter always returns a usable limiter for the key, under every
\* interleaving with the limiter sweep: no call dereferences a missing
\* entry, and a call that has returned holds a limiter that exists.
C34_LimiterReturned ==
    \A p \in Flows :
       loc[p].op = "limiter"
       => /\ pc[p] # "panic"
          /\ pc[p] = "done" => (loc[p].lim # Nil /\ loc[p].lim \in DOMAIN limiters)

\* ------------------------------------------------------------ claims: concurrent guesses

\* C35: under two concurrent guess submissions of one session the row index
\* written by UpdateGameState is always within 0..MaxGuesses-1 and
\* CurrentRow never exceeds MaxGuesses.
C35_RowWithinBoard ==
    /\ \A p \in Flows : loc[p].op = "guess" => loc[p].wrote < MaxGuesses
    /\ \A g \in DOMAIN games : games[g].CurrentRow <= MaxGuesses

\* C36: a successful guess submission is not lost to a concurrent session
\* sweep: when the submission returns, the cache maps the session id to the
\* state whose GuessHistory ends with that guess, with a refreshed
\* LastAccessTime.
C36_GuessNotLost ==
    \A p \in Flows :
       ( /\ got.op = "saved"
         /\ pc[p] = "done"
         /\ loc[p].op = "guess"
         /\ loc[p].wrote >= 0 )
       => /\ loc[p].sid \in DOMAIN got.sessions
          /\ got.sessions[loc[p].sid] = loc[p].game
          /\ LET game == got.heap[loc[p].game]
             IN  /\ Len(game.GuessHistory) > 0
                 /\ game.GuessHistory[Len(game.GuessHistory)] = loc[p].guess
                 /\ game.LastAccessTime = got.at

\* the sweep removed the session after the request had fetched its game,
\* and the request stored it again with its guess
C36_Witness ==
    /\ got.op = "saved"
    /\ pc["f1"] = "done"
    /\ loc["f1"].wrote >= 0
    /\ loc["f1"].removed
    /\ got.at > SessionTTL
    /\ got.sessions[loc["f1"].sid] = loc["f1"].game

\* ------------------------------------------------------------ claims: lock protocol

\* the request of the flow or the sweep of the sweeper is under way
Running(p) == pc[p] \notin {"idle", "done", "panic", "fatal"}

\* C37: the lock protocol cannot deadlock: no flow ever holds the session
\* lock and the limiter lock at the same time, no flow takes or waits for
\* the exclusive lock while it holds the shared lock of the same cache, a
\* flow that has returned or panicked holds no lock, and every request flow and every
\* sweep that is under way comes to its end (it returns, or a panic or the
\* end of the process stops it): none waits for ever.
C37_NoDeadlock ==
    /\ [](\A p \in Procs :
            /\ ~( (HoldsLock(SessionMutex, p) \/ HoldsRLock(SessionMutex, p))
                  /\ (HoldsLock(LimiterMutex, p) \/ HoldsRLock(LimiterMutex, p)) )
            /\ ~(HoldsLock(SessionMutex, p) /\ HoldsRLock(SessionMutex, p))
            /\ ~(HoldsLock(LimiterMutex, p) /\ HoldsRLock(LimiterMutex, p))
            /\ pc[p] \in {"get_lock", "retry_lock"} => ~HoldsRLock(SessionMutex, p)
            /\ pc[p] \in {"lim_lock_touch", "lim_lock_create"} => ~HoldsRLock(LimiterMutex, p)
            /\ pc[p] \in {"idle", "done", "panic"}
               => /\ ~HoldsLock(SessionMutex, p) /\ ~HoldsRLock(SessionMutex, p)
                  /\ ~HoldsLock(LimiterMutex, p) /\ ~HoldsRLock(LimiterMutex, p))
    /\ \A p \in Procs : []<>~Running(p)

\* a request waits for the exclusive session lock while the session sweep
\* holds it and the other request holds the shared limiter lock
C37_Witness ==
    /\ pc["f1"] = "get_lock"
    /\ HoldsLock(SessionMutex, SessionSweeper)
    /\ HoldsRLock(LimiterMutex, "f2")

\* ------------------------------------------------------------ claims: catalog words

\* C38: for a non-empty catalog, the SessionWord of every GameState stored in
\* the session cache is a word of the target catalog, after any sequence of
\* get, new game, guess submission, retry and sweep operations.
C38_SessionWordInCatalog ==
    \A sid \in DOMAIN GameSessions : games[GameSessions[sid]].SessionWord \in WordSet

\* the sweep has removed a game, the session has a game again, and that
\* game has been retried after a guess
C38_Witness ==
    /\ "cleanupStaleSessions:logInfo" \in lockedCalls
    /\ last.op = "retry"
    /\ last.before.CurrentRow > 0
    /\ \E sid \in DOMAIN GameSessions :
          games[GameSessions[sid]].SessionWord = last.before.SessionWord

\* ------------------------------------------------------------ claims: isolation of clients

\* C39: rate-limiter buckets are isolated per client key: the admission
\* checks of a key, including ones that exhaust its bucket, never change the
\* limiter or the admission outcomes of another key: run side by side with a
\* server on which it is alone, every key has the same limiter and gets the
\* same admission results as there, whatever the other key does.
C39_KeysIsolated ==
    /\ \A k \in Keys :
          /\ (k \in DOMAIN LimiterMap) = (k \in DOMAIN AloneMap(k))
          /\ k \in DOMAIN LimiterMap
             => limiters[LimiterMap[k]] = AloneHeap(k)[AloneMap(k)[k]]
    /\ request.checked => request.allowed = (got.op = "allowed")

\* one client has used up its bucket and is refused, and the other client,
\* checked after that, is admitted with a bucket that misses one token
C39_Witness ==
    /\ request.checked
    /\ request.key = "10.0.0.1"
    /\ request.allowed
    /\ request.stats["10.0.0.1"].checks = 1
    /\ request.stats["::1"].checks > RateLimitBurst
    /\ request.stats["::1"].failedAt >= 0
    /\ limiters[LimiterMap["10.0.0.1"]].Limiter.tokens = (LimiterBurst - 1) * RefillTicks

====
